---- MODULE Spec2Model ----
(***************************************************************************)
(* Input-capture engine of SC-Binding-Utility (src-tauri/src/directinput.rs)*)
(*                                                                         *)
(* Axis values are f32 in [-1.0, 1.0] in the source; here they are integers*)
(* in hundredths (0.5 is 50, 0.3 is 30).  Time is counted in suspension    *)
(* intervals: one thread::sleep or one expired blocking read advances the  *)
(* clock by one unit, and the timeouts of a session are given in the same  *)
(* unit.                                                                   *)
(***************************************************************************)
EXTENDS Integers, Sequences, FiniteSets, TLC

VARIABLES
    \* ---- debouncer harness: one axis observed through every call site ----
    obs,          \* the observations fed so far
    site_state,   \* call site -> AxisState of the axis, or NoState
    site_fired,   \* call site -> what each observation fired
    \* ---- one capture session ----
    proto,               \* "one" (wait_for_input), "burst" (wait_for_multiple_inputs),
                         \* "stream" (wait_for_inputs_with_events)
    session_id,
    initial_timeout,     \* timeout_secs / initial_timeout_secs
    collect_duration,    \* collect_duration_secs
    pc,                  \* where the session's thread is
    now,                 \* the clock (Instant::now())
    start,               \* let start = Instant::now()
    first_input_time,    \* Option<Instant>: NoTime or the clock value
    axis_states,         \* HashMap<(usize, u32), AxisState>, generic backend
    xinput_prev_states,  \* [Option<XInputState>; 4]
    xinput_axis_states,  \* HashMap<(u32, u32), AxisState>, legacy backend
    controller_id,       \* the slot the XInput poll loop is at
    collected_inputs,    \* Vec<DetectedInput> of wait_for_multiple_inputs
    result,              \* what the entry point returned
    emitted,             \* what was pushed to the window, in order
    \* ---- the backends ----
    queue,               \* pending events of the session's Gilrs instance
    xhw,                 \* slot -> what xinput.get_state(slot) returns now
    xhw_start,           \* xhw as it was when the entry point was called
    env_left,            \* backend events the environment may still produce
    \* ---- history ----
    accepted,            \* the DetectedInputs classification produced, in order
    \* ---- one call of a pure function ----
    fn_call,             \* the function called and its arguments
    fn_ret,              \* [done, value]: whether it has returned, and what
    \* ---- one HidAxisTracker (hid_reader.rs)
    tracker,             \* [previous_report, axis_change_counts]
    hid_ret,             \* axis_values of the HidAxisReport last returned
    hid_history,         \* the reports passed to process_report, in order
    \* ---- one call of detect_axis_movement_for_device
    GILRS_INSTANCE,      \* the static: [some, events], events pending in the instance
    watch,               \* the call: [pc, target_uuid, timeout, start, now,
                         \*            latest_movement, result]
    watch_seen,          \* the events the call has taken from the instance, in order
    watch_env,           \* events the devices may still send
    \* ---- a second capture session, on another worker
    peer,                \* its locals: [pc, proto, session_id, axis_states,
                         \*   xinput_prev_states, xinput_axis_states, first_input_time,
                         \*   collected_inputs, emitted, result]
    peer_left,           \* steps it may still take
    \* ---- concurrent calls of detect_axis_movement_for_device
    callers,             \* per call: [pc, target_uuid, timeout, start, latest_movement,
                         \*   result, wake]
    gilrs_mutex,         \* the call holding GILRS_INSTANCE's mutex, 0 when free
    wclock,              \* the clock the calls read
    drained,             \* history: the events taken from the instance, and by whom
    created              \* history: how often an instance was stored in the static

\* ------------------------------------------------------------------ bounds
MaxObs == 5
MaxReports == 4
MaxCodeIndex == 2
MaxTimeout == 1
MaxTime == 4
MaxEnv == 3
MaxQueue == 2

\* --------------------------------------------------------------- constants
AXIS_TRIGGER_THRESHOLD == 50
AXIS_RESET_THRESHOLD == 30
MOVEMENT_THRESHOLD == 30
\* One suspension of a capture loop, the unit of the clock: a blocking read
\* that times out (50 ms) or wait_for_input's sleep.  Timeouts are counted
\* in the same unit.
TickInterval == 1

\* The observation values the harness draws from: both sides of every
\* threshold, the thresholds themselves, and the extremes.
DebValues == {-100, -60, -50, -30, 0, 29, 30, 50, 60, 100}

Abs(x) == IF x < 0 THEN -x ELSE x

NoState == [absent |-> TRUE]

\* struct AxisState; last_triggered_direction is "none", "pos" (Some(true))
\* or "neg" (Some(false)).
AxisState(value, dir) == [last_value |-> value, dir |-> dir]

\* axis_states.entry(key).or_insert(AxisState { last_value: value, None })
EntryOrInsert(st, value) == IF st = NoState THEN AxisState(value, "none") ELSE st

\* ------------------------------------------------------- the debouncers
\* Each takes the stored state (after or_insert) and the observed value and
\* gives [state |-> the state left behind, fire |-> "none" | "pos" | "neg"].

\* Variant: a centered observation stores the value but leaves the fired
\* direction in place.
DebounceWaitGeneric_NoReset(st, value) ==
    LET movement_delta == Abs(value - st.last_value)
        is_positive == value > AXIS_TRIGGER_THRESHOLD
        is_negative == value < -AXIS_TRIGGER_THRESHOLD
        is_centered == Abs(value) < AXIS_RESET_THRESHOLD
        has_moved_enough == movement_delta > MOVEMENT_THRESHOLD
        st1 == IF is_centered THEN AxisState(value, st.dir) ELSE st
        should_trigger_positive ==
            is_positive /\ has_moved_enough /\ st1.dir # "pos"
        should_trigger_negative ==
            is_negative /\ has_moved_enough /\ st1.dir # "neg"
    IN  IF should_trigger_positive \/ should_trigger_negative
        THEN LET d == IF should_trigger_positive THEN "pos" ELSE "neg"
             IN  [state |-> AxisState(value, d), fire |-> d]
        ELSE [state |-> st1, fire |-> "none"]

\* wait_for_input, generic backend.
DebounceWaitGeneric(st, value) ==
    LET movement_delta == Abs(value - st.last_value)
        is_positive == value > AXIS_TRIGGER_THRESHOLD
        is_negative == value < -AXIS_TRIGGER_THRESHOLD
        is_centered == Abs(value) < AXIS_RESET_THRESHOLD
        has_moved_enough == movement_delta > MOVEMENT_THRESHOLD
        st1 == IF is_centered THEN AxisState(value, "none") ELSE st
        should_trigger_positive ==
            is_positive /\ has_moved_enough /\ st1.dir # "pos"
        should_trigger_negative ==
            is_negative /\ has_moved_enough /\ st1.dir # "neg"
    IN  IF should_trigger_positive \/ should_trigger_negative
        THEN LET d == IF should_trigger_positive THEN "pos" ELSE "neg"
             IN  [state |-> AxisState(value, d), fire |-> d]
        ELSE [state |-> st1, fire |-> "none"]

\* Variant: no movement gate, the threshold and the fired direction decide.
DebounceWaitXInput_NoMovementGate(st, value) ==
    LET is_positive == value > AXIS_TRIGGER_THRESHOLD
        is_negative == value < -AXIS_TRIGGER_THRESHOLD
        is_centered == Abs(value) < AXIS_RESET_THRESHOLD
        st1 == IF is_centered THEN AxisState(value, "none") ELSE st
        should_trigger_positive == is_positive /\ st1.dir # "pos"
        should_trigger_negative == is_negative /\ st1.dir # "neg"
    IN  IF should_trigger_positive \/ should_trigger_negative
        THEN LET d == IF should_trigger_positive THEN "pos" ELSE "neg"
             IN  [state |-> AxisState(value, d), fire |-> d]
        ELSE [state |-> st1, fire |-> "none"]

\* wait_for_input, legacy (XInput) backend.
DebounceWaitXInput(st, value) ==
    LET movement_delta == Abs(value - st.last_value)
        is_positive == value > AXIS_TRIGGER_THRESHOLD
        is_negative == value < -AXIS_TRIGGER_THRESHOLD
        is_centered == Abs(value) < AXIS_RESET_THRESHOLD
        has_moved_enough == movement_delta > MOVEMENT_THRESHOLD
        st1 == IF is_centered THEN AxisState(value, "none") ELSE st
        should_trigger_positive ==
            is_positive /\ has_moved_enough /\ st1.dir # "pos"
        should_trigger_negative ==
            is_negative /\ has_moved_enough /\ st1.dir # "neg"
    IN  IF should_trigger_positive \/ should_trigger_negative
        THEN LET d == IF should_trigger_positive THEN "pos" ELSE "neg"
             IN  [state |-> AxisState(value, d), fire |-> d]
        ELSE [state |-> st1, fire |-> "none"]

\* wait_for_multiple_inputs, generic backend.
DebounceBurstGeneric(st, value) ==
    LET movement_delta == Abs(value - st.last_value)
        is_positive == value > AXIS_TRIGGER_THRESHOLD
        is_negative == value < -AXIS_TRIGGER_THRESHOLD
        is_centered == Abs(value) < AXIS_RESET_THRESHOLD
        has_moved_enough == movement_delta > MOVEMENT_THRESHOLD
        st1 == IF is_centered THEN AxisState(value, "none") ELSE st
        should_trigger_positive ==
            is_positive /\ has_moved_enough /\ st1.dir # "pos"
        should_trigger_negative ==
            is_negative /\ has_moved_enough /\ st1.dir # "neg"
    IN  IF should_trigger_positive \/ should_trigger_negative
        THEN LET d == IF should_trigger_positive THEN "pos" ELSE "neg"
             IN  [state |-> AxisState(value, d), fire |-> d]
        ELSE [state |-> st1, fire |-> "none"]

\* Variant: the threshold alone decides, the fired direction is not consulted.
DebounceStreamGeneric_NoMemory(st, value) ==
    LET abs_value == Abs(value)
        is_positive == value > 0
        d == IF is_positive THEN "pos" ELSE "neg"
        should_trigger == abs_value >= AXIS_TRIGGER_THRESHOLD
        dir1 == IF abs_value < AXIS_RESET_THRESHOLD THEN "none" ELSE st.dir
    IN  IF should_trigger
        THEN [state |-> AxisState(value, d), fire |-> d]
        ELSE [state |-> AxisState(value, dir1), fire |-> "none"]

\* wait_for_inputs_with_events, generic backend: no movement gate, the
\* sign of the value is the direction, the trigger test is >=, it is made
\* before the reset, and last_value is stored unconditionally.
DebounceStreamGeneric(st, value) ==
    LET abs_value == Abs(value)
        is_positive == value > 0
        d == IF is_positive THEN "pos" ELSE "neg"
        should_trigger ==
            IF st.dir = "none" THEN abs_value >= AXIS_TRIGGER_THRESHOLD
            ELSE IF st.dir = d THEN FALSE
            ELSE abs_value >= AXIS_TRIGGER_THRESHOLD
        dir1 == IF abs_value < AXIS_RESET_THRESHOLD THEN "none" ELSE st.dir
    IN  IF should_trigger
        THEN [state |-> AxisState(value, d), fire |-> d]
        ELSE [state |-> AxisState(value, dir1), fire |-> "none"]

\* wait_for_inputs_with_events, legacy (XInput) backend.
DebounceStreamXInput(st, value) ==
    LET movement_delta == Abs(value - st.last_value)
        is_positive == value > AXIS_TRIGGER_THRESHOLD
        is_negative == value < -AXIS_TRIGGER_THRESHOLD
        is_centered == Abs(value) < AXIS_RESET_THRESHOLD
        has_moved_enough == movement_delta > MOVEMENT_THRESHOLD
        st1 == IF is_centered THEN AxisState(value, "none") ELSE st
        should_trigger_positive ==
            is_positive /\ has_moved_enough /\ st1.dir # "pos"
        should_trigger_negative ==
            is_negative /\ has_moved_enough /\ st1.dir # "neg"
    IN  IF should_trigger_positive \/ should_trigger_negative
        THEN LET d == IF should_trigger_positive THEN "pos" ELSE "neg"
             IN  [state |-> AxisState(value, d), fire |-> d]
        ELSE [state |-> st1, fire |-> "none"]

Sites == {"wait_generic", "wait_xinput", "burst_generic",
          "stream_generic", "stream_xinput"}

Debounce(site, st, value) ==
    CASE site = "wait_generic" -> DebounceWaitGeneric(st, value)
      [] site = "wait_xinput" -> DebounceWaitXInput(st, value)
      [] site = "burst_generic" -> DebounceBurstGeneric(st, value)
      [] site = "stream_generic" -> DebounceStreamGeneric(st, value)
      [] site = "stream_xinput" -> DebounceStreamXInput(st, value)

\* One observation at one call site: get or create the state, then debounce.
ObserveAt(site, st, value) == Debounce(site, EntryOrInsert(st, value), value)

\* ------------------------------------------------------ device naming
\* A device name is the sequence of its characters.
UpperCase == <<"A", "B", "C", "D", "E", "F", "G", "H", "I", "J", "K", "L", "M", "N", "O", "P", "Q", "R", "S", "T", "U", "V", "W", "X", "Y", "Z">>
LowerCase == <<"a", "b", "c", "d", "e", "f", "g", "h", "i", "j", "k", "l", "m", "n", "o", "p", "q", "r", "s", "t", "u", "v", "w", "x", "y", "z">>

\* str::to_lowercase, character by character.
ToLowerChar(c) ==
    IF \E i \in 1..Len(UpperCase) : UpperCase[i] = c
    THEN LowerCase[CHOOSE i \in 1..Len(UpperCase) : UpperCase[i] = c]
    ELSE c
ToLowercase(name) == [i \in 1..Len(name) |-> ToLowerChar(name[i])]

ToUpperChar(c) ==
    IF \E i \in 1..Len(LowerCase) : LowerCase[i] = c
    THEN UpperCase[CHOOSE i \in 1..Len(LowerCase) : LowerCase[i] = c]
    ELSE c
ToUppercase(name) == [i \in 1..Len(name) |-> ToUpperChar(name[i])]

\* str::contains: pat occurs in text as a contiguous run.
Contains(text, pat) ==
    \E k \in 0..(Len(text) - Len(pat)) :
        \A j \in 1..Len(pat) : text[k + j] = pat[j]

joystick_indicators == {
    <<"j", "o", "y", "s", "t", "i", "c", "k">>,
    <<"h", "o", "t", "a", "s">>,
    <<"t", "h", "r", "o", "t", "t", "l", "e">>,
    <<"g", "l", "a", "d", "i", "a", "t", "o", "r">>,
    <<"w", "a", "r", "t", "h", "o", "g">>,
    <<"t", "1", "6", "0", "0", "0">>,
    <<"v", "k", "b">>,
    <<"v", "k", "b", "s", "i", "m">>,
    <<"v", "i", "r", "p", "i", "l">>,
    <<"t", "h", "r", "u", "s", "t", "m", "a", "s", "t", "e", "r">>,
    <<"s", "a", "i", "t", "e", "k">>,
    <<"x", "5", "2">>,
    <<"x", "5", "6">> }

\* Variant: the list without "gamepad".
gamepad_indicators_NoGamepad == {
    <<"x", "b", "o", "x">>,
    <<"p", "l", "a", "y", "s", "t", "a", "t", "i", "o", "n">>,
    <<"d", "u", "a", "l", "s", "h", "o", "c", "k">>,
    <<"d", "u", "a", "l", "s", "e", "n", "s", "e">>,
    <<"p", "s", "3">>,
    <<"p", "s", "4">>,
    <<"p", "s", "5">>,
    <<"c", "o", "n", "t", "r", "o", "l", "l", "e", "r", " ", "f", "o", "r", " ", "w", "i", "n", "d", "o", "w", "s">>,
    <<"x", "i", "n", "p", "u", "t">> }

gamepad_indicators == {
    <<"x", "b", "o", "x">>,
    <<"p", "l", "a", "y", "s", "t", "a", "t", "i", "o", "n">>,
    <<"d", "u", "a", "l", "s", "h", "o", "c", "k">>,
    <<"d", "u", "a", "l", "s", "e", "n", "s", "e">>,
    <<"p", "s", "3">>,
    <<"p", "s", "4">>,
    <<"p", "s", "5">>,
    <<"c", "o", "n", "t", "r", "o", "l", "l", "e", "r", " ", "f", "o", "r", " ", "w", "i", "n", "d", "o", "w", "s">>,
    <<"g", "a", "m", "e", "p", "a", "d">>,
    <<"x", "i", "n", "p", "u", "t">> }

\* Variant: the gamepad indicators are checked first.
is_gamepad_GamepadFirst(name) ==
    LET name_lower == ToLowercase(name)
    IN  IF \E indicator \in gamepad_indicators : Contains(name_lower, indicator)
        THEN TRUE
        ELSE FALSE

\* fn is_gamepad: joystick indicators first, then gamepad indicators, else
\* joystick.
is_gamepad(name) ==
    LET name_lower == ToLowercase(name)
    IN  IF \E indicator \in joystick_indicators : Contains(name_lower, indicator)
        THEN FALSE
        ELSE IF \E indicator \in gamepad_indicators : Contains(name_lower, indicator)
        THEN TRUE
        ELSE FALSE

\* gamepad.uuid() is [u8; 16]; the backend gives sixteen zero bytes when it
\* has no signature for the device.
UuidLen == 16
ZeroUuid == [i \in 1..UuidLen |-> 0]
VkbUuid == <<3, 0, 0, 0, 31, 35, 0, 0, 0, 2, 0, 0, 171, 1, 0, 255>>

\* The connected devices of the generic backend, by backend index 0, 1, ...
\* (the tuple is 1-based: device id i is Gamepads[i + 1]).  map_name is the
\* SDL mapping name, <<>> when the device has none; uuid is the signature.
Gamepads == <<
    [name |-> <<"V", "K", "B", " ", "G", "l", "a", "d", "i", "a", "t", "o", "r", " ", "N", "X", "T">>, map_name |-> <<>>,
     uuid |-> VkbUuid],
    [name |-> <<"X", "b", "o", "x", " ", "W", "i", "r", "e", "l", "e", "s", "s", " ", "C", "o", "n", "t", "r", "o", "l", "l", "e", "r">>, map_name |-> <<>>,
     uuid |-> ZeroUuid] >>
DeviceIds == 0..(Len(Gamepads) - 1)

\* fn get_friendly_device_name: the mapping name when there is one, else the
\* OS name (the devices modelled carry no vendor/product id, so the database
\* and vendor fallbacks are not taken).
get_friendly_device_name(gamepad) ==
    IF gamepad.map_name # <<>> THEN gamepad.map_name ELSE gamepad.name

\* is_gamepad(&device_name, &gamepad) of each device, as every event arm
\* computes it.
DeviceIsGamepad ==
    [id \in DeviceIds |-> is_gamepad(get_friendly_device_name(Gamepads[id + 1]))]
device_prefix(id) == IF DeviceIsGamepad[id] THEN "gp" ELSE "js"
device_type_name(id) == IF DeviceIsGamepad[id] THEN "Gamepad" ELSE "Joystick"

\* ---- device identity
Digits == <<"0", "1", "2", "3", "4", "5", "6", "7", "8", "9">>
HexDigits == <<"0", "1", "2", "3", "4", "5", "6", "7", "8", "9", "a", "b", "c", "d", "e", "f">>

\* format!("{}", n) of an unsigned integer, as characters.
RECURSIVE DecimalChars(_)
DecimalChars(n) ==
    IF n < 10 THEN <<Digits[n + 1]>>
    ELSE DecimalChars(n \div 10) \o <<Digits[(n % 10) + 1]>>

\* format!("{:02x}", byte): two lowercase hexadecimal digits.
HexByte(byte) == <<HexDigits[(byte \div 16) + 1], HexDigits[(byte % 16) + 1]>>

\* Variant: an all-zero signature is hex-encoded like any other.
resolve_device_uuid_NoFallback(gamepad, fallback_id) ==
    [i \in 1..(2 * Len(gamepad.uuid)) |-> HexByte(gamepad.uuid[(i + 1) \div 2])[2 - (i % 2)]]

\* fn resolve_device_uuid: "{name}_{fallback_id}" for an all-zero signature,
\* else the bytes in hexadecimal, concatenated.
resolve_device_uuid(gamepad, fallback_id) ==
    LET raw == gamepad.uuid
    IN  IF \A i \in 1..Len(raw) : raw[i] = 0
        THEN gamepad.name \o <<"_">> \o DecimalChars(fallback_id)
        ELSE [i \in 1..(2 * Len(raw)) |-> HexByte(raw[(i + 1) \div 2])[2 - (i % 2)]]

\* fn resolve_xinput_uuid: format!("xinput_{}", controller_id).
resolve_xinput_uuid(slot) ==
    <<"x", "i", "n", "p", "u", "t", "_">> \o DecimalChars(slot)

\* format!("{:?}", gamepad.uuid()): the Debug text of the byte array,
\* "[b1, b2, ..., b16]".
RECURSIVE DebugBytes(_)
DebugBytes(raw) ==
    IF raw = <<>> THEN <<>>
    ELSE IF Len(raw) = 1 THEN DecimalChars(raw[1])
    ELSE DecimalChars(raw[1]) \o <<",", " ">> \o DebugBytes(Tail(raw))
DebugUuid(gamepad) == <<"[">> \o DebugBytes(gamepad.uuid) \o <<"]">>

\* --------------------------------------------- event codes and parsing
\* gilrs::ev::Code is opaque; the source reads it through its Debug text.
\* A code is [fmt, kind, n]: fmt "index" prints as
\*   Code(EvCode { kind: <kind>, index: <n> })
\* and fmt "code" (a platform whose EvCode has no index field) prints as
\*   Code(EvCode { kind: <kind>, code: <n> })
\* The text is kept as its space-separated words.
Code(fmt, kind, n) == [fmt |-> fmt, kind |-> kind, n |-> n]

CodeDebug(code) ==
    <<"Code(EvCode", "{", "kind:", code.kind \o ",",
      (IF code.fmt = "index" THEN "index:" ELSE "code:"), ToString(code.n), "})">>

\* The position of the word "index:" (code_str.find("index: ")), 0 if absent.
FindIndexWord(words) ==
    IF \E i \in 1..Len(words) : words[i] = "index:"
    THEN CHOOSE i \in 1..Len(words) :
            words[i] = "index:" /\ \A j \in 1..(i-1) : words[j] # "index:"
    ELSE 0

\* str::parse::<u32> of one word: the number it spells, -1 when it spells none.
ParseU32(word) ==
    IF \E n \in 0..MaxCodeIndex : ToString(n) = word
    THEN CHOOSE n \in 0..MaxCodeIndex : ToString(n) = word
    ELSE -1

\* The parsed number taken as it is, without the step to 1-based indexing.
ParseButtonIndex_ZeroBased(code) ==
    IF code.fmt = "index" THEN code.n ELSE 0

\* The button index of the ButtonPressed arms:
\*   find("index: ") / rest.find(' ') / parse::<u32>().unwrap_or(0) + 1, else 0
ParseButtonIndex(code) ==
    LET words == CodeDebug(code)
        found == FindIndexWord(words)
    IN  IF found = 0 THEN 0
        ELSE IF found + 1 >= Len(words) THEN 0   \* no ' ' after the number
        ELSE (IF ParseU32(words[found + 1]) < 0 THEN 0
              ELSE ParseU32(words[found + 1])) + 1

NoInfo == [none |-> TRUE]

\* fn extract_code_info: Some((is_axis, index + 1)) or None.
extract_code_info(code) ==
    LET words == CodeDebug(code)
        is_axis == \E i \in 1..(Len(words) - 1) :
                       words[i] = "kind:" /\ words[i + 1] = "Axis,"
        found == FindIndexWord(words)
    IN  IF found = 0 THEN NoInfo
        ELSE IF found + 1 >= Len(words) THEN NoInfo
        ELSE IF ParseU32(words[found + 1]) < 0 THEN NoInfo
        ELSE [is_axis |-> is_axis, index |-> ParseU32(words[found + 1]) + 1]

\* fn extract_index_from_code: Option<u32> as a set, {} for None and
\* {index + 1} for Some.
extract_index_from_code(code) ==
    LET words == CodeDebug(code)
        found == FindIndexWord(words)
    IN  IF found = 0 THEN {}
        ELSE IF found + 1 >= Len(words) THEN {}
        ELSE IF ParseU32(words[found + 1]) < 0 THEN {}
        ELSE {ParseU32(words[found + 1]) + 1}

\* ============================================================ session
NoTime == -1
NoInput == [none |-> TRUE]
NoReading == [err |-> TRUE]
Protocols == {"one", "burst", "stream"}
SessionIds == {"s1", "s2"}
Slots == 0..3
XAxes == 1..6

\* struct DetectedInput (the fields the capture protocols decide).
DetectedInput(input_string, device_type, axis_value, device_uuid) ==
    [input_string |-> input_string, device_type |-> device_type,
     axis_value |-> axis_value, session_id |-> session_id,
     device_uuid |-> device_uuid]
NoValue == 1000

\* ---- generic-backend events: gilrs::Event { id, event }
ButtonPressed(id, button, code) ==
    [id |-> id, type |-> "ButtonPressed", button |-> button, value |-> 0, code |-> code]
AxisChanged(id, value, code) ==
    [id |-> id, type |-> "AxisChanged", button |-> "", value |-> value, code |-> code]
OtherEvent(id) ==
    [id |-> id, type |-> "Connected", button |-> "", value |-> 0,
     code |-> Code("index", "Button", 0)]

SessValues == {-60, 0, 60}
\* What the devices send: a D-pad press, a regular button whose code carries
\* an index, one whose code does not, axis movements, an axis event whose
\* code does not name an axis, and an event that is neither.
GenericEvents ==
    {ButtonPressed(0, "DPadUp", Code("index", "Button", 1)),
     ButtonPressed(1, "South", Code("index", "Button", MaxCodeIndex)),
     ButtonPressed(0, "Unknown", Code("code", "Button", 1)),
     AxisChanged(0, 60, Code("code", "Axis", 0)),
     AxisChanged(1, 60, Code("index", "Axis", MaxCodeIndex)),
     OtherEvent(0)}
    \cup {AxisChanged(0, v, Code("index", "Axis", 0)) : v \in SessValues}

AxisKeys == DeviceIds \X (1..(MaxCodeIndex + 1))
XAxisKeys == Slots \X XAxes

Direction(fire) == IF fire = "pos" THEN "positive" ELSE "negative"

\* The (input_string) of the match on `button`: the four D-pad arms, then
\* the regular-button arm with the parsed index; "" stands for the arm's
\* button_index = 0 case, which each protocol handles itself.
HatString(id, button) ==
    device_prefix(id) \o ToString(id + 1) \o
        (CASE button = "DPadUp" -> "_hat1_up"
           [] button = "DPadDown" -> "_hat1_down"
           [] button = "DPadLeft" -> "_hat1_left"
           [] button = "DPadRight" -> "_hat1_right")
IsDPad(button) == button \in {"DPadUp", "DPadDown", "DPadLeft", "DPadRight"}
ButtonString(id, button_index) ==
    device_prefix(id) \o ToString(id + 1) \o "_button" \o ToString(button_index)
ButtonUnknownString(id) ==
    device_prefix(id) \o ToString(id + 1) \o "_button_unknown"
AxisString(id, axis_index, fire) ==
    device_prefix(id) \o ToString(id + 1) \o "_axis" \o ToString(axis_index)
        \o "_" \o Direction(fire)

\* wait_for_input, one event of the generic backend:
\* [input |-> what the arm returns (NoInput: the loop goes on),
\*  axis_states |-> the table afterwards].
WaitGenericEvent(e, states) ==
    IF e.type = "ButtonPressed" THEN
        LET button_index == ParseButtonIndex(e.code)
            input_string ==
                IF IsDPad(e.button) THEN HatString(e.id, e.button)
                ELSE IF button_index > 0 THEN ButtonString(e.id, button_index)
                ELSE ButtonUnknownString(e.id)
        IN  [input |-> DetectedInput(input_string, device_type_name(e.id), NoValue,
                                 resolve_device_uuid(Gamepads[e.id + 1], e.id)),
             axis_states |-> states]
    ELSE IF e.type = "AxisChanged" THEN
        LET info == extract_code_info(e.code)
        IN  IF info = NoInfo THEN [input |-> NoInput, axis_states |-> states]
            ELSE IF ~info.is_axis THEN [input |-> NoInput, axis_states |-> states]
            ELSE IF info.index > 0 THEN
                LET axis_key == <<e.id, info.index>>
                    r == DebounceWaitGeneric(EntryOrInsert(states[axis_key], e.value), e.value)
                    states1 == [states EXCEPT ![axis_key] = r.state]
                IN  IF r.fire # "none"
                    THEN [input |-> DetectedInput(AxisString(e.id, info.index, r.fire),
                                                  device_type_name(e.id), e.value,
                                                  resolve_device_uuid(Gamepads[e.id + 1], e.id)),
                          axis_states |-> states1]
                    ELSE [input |-> NoInput, axis_states |-> states1]
            ELSE [input |-> NoInput, axis_states |-> states]
    ELSE [input |-> NoInput, axis_states |-> states]

\* wait_for_multiple_inputs, one event: detected_input and the table.
BurstGenericEvent(e, states) ==
    IF e.type = "ButtonPressed" THEN
        LET button_index == ParseButtonIndex(e.code)
            input_string ==
                IF IsDPad(e.button) THEN HatString(e.id, e.button)
                ELSE IF button_index > 0 THEN ButtonString(e.id, button_index)
                ELSE ButtonUnknownString(e.id)
        IN  [input |-> DetectedInput(input_string, device_type_name(e.id), NoValue,
                                 DebugUuid(Gamepads[e.id + 1])),
             axis_states |-> states]
    ELSE IF e.type = "AxisChanged" THEN
        LET info == extract_code_info(e.code)
        IN  IF info = NoInfo THEN [input |-> NoInput, axis_states |-> states]
            ELSE IF ~info.is_axis THEN [input |-> NoInput, axis_states |-> states]
            ELSE IF info.index > 0 THEN
                LET axis_key == <<e.id, info.index>>
                    r == DebounceBurstGeneric(EntryOrInsert(states[axis_key], e.value), e.value)
                    states1 == [states EXCEPT ![axis_key] = r.state]
                IN  IF r.fire # "none"
                    THEN [input |-> DetectedInput(AxisString(e.id, info.index, r.fire),
                                                  device_type_name(e.id), e.value,
                                                  DebugUuid(Gamepads[e.id + 1])),
                          axis_states |-> states1]
                    ELSE [input |-> NoInput, axis_states |-> states1]
            ELSE [input |-> NoInput, axis_states |-> states]
    ELSE [input |-> NoInput, axis_states |-> states]

\* Variant: the axis index alone is the key, whatever the device.
StreamGenericEvent_KeyByAxis(e, states) ==
    IF e.type = "ButtonPressed" THEN
        LET button_index == ParseButtonIndex(e.code)
        IN  IF IsDPad(e.button)
            THEN [input |-> DetectedInput(HatString(e.id, e.button),
                                          device_type_name(e.id), NoValue,
                                          DebugUuid(Gamepads[e.id + 1])),
                  axis_states |-> states]
            ELSE IF button_index > 0
            THEN [input |-> DetectedInput(ButtonString(e.id, button_index),
                                          device_type_name(e.id), NoValue,
                                          DebugUuid(Gamepads[e.id + 1])),
                  axis_states |-> states]
            ELSE [input |-> NoInput, axis_states |-> states]
    ELSE IF e.type = "AxisChanged" THEN
        LET info == extract_code_info(e.code)
        IN  IF info = NoInfo THEN [input |-> NoInput, axis_states |-> states]
            ELSE IF ~info.is_axis THEN [input |-> NoInput, axis_states |-> states]
            ELSE IF info.index > 0 THEN
                LET axis_key == <<0, info.index>>
                    r == DebounceStreamGeneric(EntryOrInsert(states[axis_key], e.value), e.value)
                    states1 == [states EXCEPT ![axis_key] = r.state]
                IN  IF r.fire # "none"
                    THEN [input |-> DetectedInput(AxisString(e.id, info.index, r.fire),
                                                  device_type_name(e.id), e.value,
                                                  DebugUuid(Gamepads[e.id + 1])),
                          axis_states |-> states1]
                    ELSE [input |-> NoInput, axis_states |-> states1]
            ELSE [input |-> NoInput, axis_states |-> states]
    ELSE [input |-> NoInput, axis_states |-> states]

\* wait_for_inputs_with_events, one event: a regular button whose index
\* does not parse is skipped (continue).
StreamGenericEvent(e, states) ==
    IF e.type = "ButtonPressed" THEN
        LET button_index == ParseButtonIndex(e.code)
        IN  IF IsDPad(e.button)
            THEN [input |-> DetectedInput(HatString(e.id, e.button),
                                          device_type_name(e.id), NoValue,
                                          DebugUuid(Gamepads[e.id + 1])),
                  axis_states |-> states]
            ELSE IF button_index > 0
            THEN [input |-> DetectedInput(ButtonString(e.id, button_index),
                                          device_type_name(e.id), NoValue,
                                          DebugUuid(Gamepads[e.id + 1])),
                  axis_states |-> states]
            ELSE [input |-> NoInput, axis_states |-> states]
    ELSE IF e.type = "AxisChanged" THEN
        LET info == extract_code_info(e.code)
        IN  IF info = NoInfo THEN [input |-> NoInput, axis_states |-> states]
            ELSE IF ~info.is_axis THEN [input |-> NoInput, axis_states |-> states]
            ELSE IF info.index > 0 THEN
                LET axis_key == <<e.id, info.index>>
                    r == DebounceStreamGeneric(EntryOrInsert(states[axis_key], e.value), e.value)
                    states1 == [states EXCEPT ![axis_key] = r.state]
                IN  IF r.fire # "none"
                    THEN [input |-> DetectedInput(AxisString(e.id, info.index, r.fire),
                                                  device_type_name(e.id), e.value,
                                                  DebugUuid(Gamepads[e.id + 1])),
                          axis_states |-> states1]
                    ELSE [input |-> NoInput, axis_states |-> states1]
            ELSE [input |-> NoInput, axis_states |-> states]
    ELSE [input |-> NoInput, axis_states |-> states]

\* ---- legacy backend: XINPUT_STATE.Gamepad; wButtons is the set of its bits
XState(wButtons, sThumbLX, bLeftTrigger) ==
    [wButtons |-> wButtons, sThumbLX |-> sThumbLX, sThumbLY |-> 0,
     sThumbRX |-> 0, sThumbRY |-> 0,
     bLeftTrigger |-> bLeftTrigger, bRightTrigger |-> 0]

\* What the environment lets a slot read: nothing pressed, A, A and B, a bit
\* outside the button table (0x0400), the left stick pushed right, D-pad up
\* (0x0001), the left trigger fully pressed.  Slots 2 and 3 never hold a
\* controller.
XReadingsOf(slot) ==
    CASE slot = 0 -> {XState({}, 0, 0), XState({4096}, 0, 0), XState({4096, 8192}, 0, 0),
                      XState({1024}, 0, 0), XState({}, 19661, 0),
                      XState({1}, 0, 0), XState({}, 0, 255)}
      [] slot = 1 -> {XState({}, 0, 0), XState({8192}, 0, 0)}
      [] OTHER -> {}

\* (raw as f32) / 32768.0 and (raw as f32) / 255.0 * 2.0 - 1.0, in hundredths.
NormThumb(raw) == (raw * 100) \div 32768
NormTrigger(raw) == (raw * 200) \div 255 - 100

\* The `axes` array of the poll: the value of axis 1..6 of a slot's state.
XAxisValue(state, axis_index) ==
    CASE axis_index = 1 -> NormThumb(state.sThumbLX)
      [] axis_index = 2 -> NormThumb(state.sThumbLY)
      [] axis_index = 3 -> NormThumb(state.sThumbRX)
      [] axis_index = 4 -> NormThumb(state.sThumbRY)
      [] axis_index = 5 -> NormTrigger(state.bLeftTrigger)
      [] axis_index = 6 -> NormTrigger(state.bRightTrigger)

\* The if / else-if chain over buttons_pressed: the first bit of the table
\* that is set decides, 0 when none of the 14 is.
XButtonNum(buttons_pressed) ==
    IF 4096 \in buttons_pressed THEN 1
    ELSE IF 8192 \in buttons_pressed THEN 2
    ELSE IF 16384 \in buttons_pressed THEN 3
    ELSE IF 32768 \in buttons_pressed THEN 4
    ELSE IF 256 \in buttons_pressed THEN 5
    ELSE IF 512 \in buttons_pressed THEN 6
    ELSE IF 16 \in buttons_pressed THEN 7
    ELSE IF 32 \in buttons_pressed THEN 8
    ELSE IF 64 \in buttons_pressed THEN 9
    ELSE IF 128 \in buttons_pressed THEN 10
    ELSE IF 1 \in buttons_pressed THEN 11
    ELSE IF 2 \in buttons_pressed THEN 12
    ELSE IF 4 \in buttons_pressed THEN 13
    ELSE IF 8 \in buttons_pressed THEN 14
    ELSE 0

XButtonString(slot, button_num) ==
    "gp" \o ToString(slot + 1) \o "_button" \o ToString(button_num)
XAxisString(slot, axis_index, fire) ==
    "gp" \o ToString(slot + 1) \o "_axis" \o ToString(axis_index) \o "_" \o Direction(fire)

\* The state tables as the initialisation loop over the four slots leaves them.
XInitPrevStates == [i \in Slots |-> xhw[i]]
XInitAxisStates ==
    [k \in XAxisKeys |->
        IF xhw[k[1]] # NoReading
        THEN AxisState(XAxisValue(xhw[k[1]], k[2]), "none")
        ELSE NoState]

\* wait_for_input: `for (axis_index, value, axis_name) in axes.iter()` from
\* axis k on; the first axis that fires returns.
RECURSIVE WaitXInputAxes(_, _, _, _)
WaitXInputAxes(slot, state, k, states) ==
    IF k > 6 THEN [input |-> NoInput, axis_states |-> states]
    ELSE LET value == XAxisValue(state, k)
             r == DebounceWaitXInput(EntryOrInsert(states[<<slot, k>>], value), value)
             states1 == [states EXCEPT ![<<slot, k>>] = r.state]
         IN  IF r.fire # "none"
             THEN [input |-> DetectedInput(XAxisString(slot, k, r.fire), "Gamepad", value,
                                           resolve_xinput_uuid(slot)),
                   axis_states |-> states1]
             ELSE WaitXInputAxes(slot, state, k + 1, states1)

\* wait_for_inputs_with_events: the same loop; every axis that fires emits.
RECURSIVE StreamXInputAxes(_, _, _, _)
StreamXInputAxes(slot, state, k, states) ==
    IF k > 6 THEN [inputs |-> <<>>, axis_states |-> states]
    ELSE LET value == XAxisValue(state, k)
             r == DebounceStreamXInput(EntryOrInsert(states[<<slot, k>>], value), value)
             states1 == [states EXCEPT ![<<slot, k>>] = r.state]
             rest == StreamXInputAxes(slot, state, k + 1, states1)
         IN  IF r.fire # "none"
             THEN [inputs |-> <<DetectedInput(XAxisString(slot, k, r.fire), "Gamepad", value,
                                           resolve_xinput_uuid(slot))>>
                                \o rest.inputs,
                   axis_states |-> rest.axis_states]
             ELSE rest

\* wait_for_input, the poll of one slot whose read succeeded and that has a
\* previous state: [input |-> the DetectedInput returned or NoInput,
\* axis_states |-> the table afterwards].
WaitXInputPoll(slot, state, prev_state, states) ==
    LET buttons_pressed == state.wButtons \ prev_state.wButtons
        button_num == XButtonNum(buttons_pressed)
    IN  IF buttons_pressed # {} /\ button_num > 0
        THEN [input |-> DetectedInput(XButtonString(slot, button_num), "Gamepad", NoValue,
                                           resolve_xinput_uuid(slot)),
              axis_states |-> states]
        ELSE WaitXInputAxes(slot, state, 1, states)

\* Variant: every bit that is set counts as pressed, whatever the stored
\* state holds.
StreamXInputPoll_NoDiff(slot, state, prev_state, states) ==
    LET buttons_pressed == state.wButtons
        button_num == XButtonNum(buttons_pressed)
        axes == StreamXInputAxes(slot, state, 1, states)
    IN  IF buttons_pressed # {} /\ button_num > 0
        THEN [inputs |-> <<DetectedInput(XButtonString(slot, button_num), "Gamepad", NoValue,
                                           resolve_xinput_uuid(slot))>>
                            \o axes.inputs,
              axis_states |-> axes.axis_states]
        ELSE axes

\* wait_for_inputs_with_events, the same poll: the inputs emitted, in order.
StreamXInputPoll(slot, state, prev_state, states) ==
    LET buttons_pressed == state.wButtons \ prev_state.wButtons
        button_num == XButtonNum(buttons_pressed)
        axes == StreamXInputAxes(slot, state, 1, states)
    IN  IF buttons_pressed # {} /\ button_num > 0
        THEN [inputs |-> <<DetectedInput(XButtonString(slot, button_num), "Gamepad", NoValue,
                                           resolve_xinput_uuid(slot))>>
                            \o axes.inputs,
              axis_states |-> axes.axis_states]
        ELSE axes

\* ------------------------------------------------------ session actions
sessVars == <<xhw_start, proto, session_id, initial_timeout, collect_duration, pc, now, start,
              first_input_time, axis_states, xinput_prev_states, xinput_axis_states,
              controller_id, collected_inputs, result, emitted, queue, xhw,
              env_left, accepted>>
debVars == <<obs, site_state, site_fired>>
fnVars == <<fn_call, fn_ret>>
vars == <<obs, site_state, site_fired, xhw_start, proto, session_id, initial_timeout,
          collect_duration, pc, now, start, first_input_time, axis_states,
          xinput_prev_states, xinput_axis_states, controller_id, collected_inputs,
          result, emitted, queue, xhw, env_left, accepted, fn_call, fn_ret,
          tracker, hid_ret, hid_history, GILRS_INSTANCE, watch, watch_seen, watch_env,
          peer, peer_left, callers, gilrs_mutex, wclock, drained, created>>

\* No pure function is being called.
NoReturn == [done |-> FALSE, value |-> <<>>]
Return(value) == [done |-> TRUE, value |-> value]
FnIdle == fn_call = [fn |-> "none"] /\ fn_ret = NoReturn

\* ---- struct HidAxisTracker
hidVars == <<tracker, hid_ret, hid_history>>
watchVars == <<GILRS_INSTANCE, watch, watch_seen, watch_env>>
pairVars == <<peer, peer_left>>
poolVars == <<callers, gilrs_mutex, wclock, drained, created>>
auxVars == <<hidVars, watchVars, pairVars, poolVars>>

\* A report is a tuple of bytes; byte index i of the source is position
\* i + 1 of the tuple.  axis_change_counts is the map itself: its domain is
\* the set of byte indices that have an entry.
EmptyMap == [i \in {} |-> 0]
\* HidAxisTracker::new()
HidAxisTrackerNew == [previous_report |-> <<>>, axis_change_counts |-> EmptyMap]
HidIdle == tracker = HidAxisTrackerNew /\ hid_ret = EmptyMap /\ hid_history = <<>>

\* ---- detect_axis_movement_for_device
NoMovement == [none |-> TRUE]
\* struct AxisMovement
AxisMovement(axis_id, value) == [axis_id |-> axis_id, value |-> value]
\* No call is in progress; the static has not been initialised.
WatchIdle ==
    /\ GILRS_INSTANCE = [some |-> FALSE, events |-> <<>>]
    /\ watch = [pc |-> "idle"]
    /\ watch_seen = <<>>
    /\ watch_env = 0

\* ---- a second capture session
PeerIdle == peer = [pc |-> "idle"] /\ peer_left = 0
\* ---- no concurrent calls of detect_axis_movement_for_device
CallersIdle ==
    /\ callers = <<>> /\ gilrs_mutex = 0 /\ wclock = 0
    /\ drained = <<>> /\ created = 0
AuxIdle == HidIdle /\ WatchIdle /\ PeerIdle /\ CallersIdle

Min(a, b) == IF a < b THEN a ELSE b

\* The byte indices at which the report differs from the stored one, when
\* the stored one is not empty and has the same length.
ChangedIndices(previous_report, report) ==
    IF previous_report # <<>> /\ Len(report) = Len(previous_report)
    THEN {i \in 0..(Len(report) - 1) : report[i + 1] # previous_report[i + 1]}
    ELSE {}

\* Variant: the stored report is set once and kept.
StorePrevious_KeepFirst(previous_report, report) ==
    IF previous_report = <<>> THEN report ELSE previous_report
\* self.previous_report = report.to_vec()
StorePrevious(previous_report, report) == report

\* *self.axis_change_counts.entry(i).or_insert(0) += 1 for every changed i.
BumpCounts(counts, changed) ==
    [i \in (DOMAIN counts) \cup changed |->
        IF i \in changed
        THEN (IF i \in DOMAIN counts THEN counts[i] ELSE 0) + 1
        ELSE counts[i]]

\* self.axis_change_counts.get(&i).unwrap_or(&0)
ChangeCount(counts, i) == IF i \in DOMAIN counts THEN counts[i] ELSE 0

\* axis_values of the returned HidAxisReport: axis_id -> report[i] for the
\* bytes from axis_start on that have changed or are among the first eight.
AxisValues(counts, report) ==
    LET axis_start == Min(5, Len(report))
        taken == {i \in axis_start..(Len(report) - 1) :
                     ChangeCount(counts, i) > 0 \/ i < axis_start + 8}
    IN  [axis_id \in {i - axis_start + 1 : i \in taken} |->
            report[axis_id + axis_start]]

\* The reports drawn: none, two bytes, and seven bytes of which the last
\* two vary.
HidReports ==
    {<<>>}
    \cup {<<a, b>> : a \in {1, 128}, b \in {1, 128}}
    \cup {<<1, 0, 128, 128, 128, x, y>> : x \in {128, 150}, y \in {128, 200}}

NoResult == [kind |-> "running"]
Ok(value) == [kind |-> "Ok", value |-> value]
Err(msg) == [kind |-> "Err", value |-> msg]

InputDetected(input) == [event |-> "input-detected", payload |-> input]
\* struct DetectionComplete { session_id }
DetectionComplete == [event |-> "input-detection-complete",
                      payload |-> [session_id |-> session_id]]

\* The emit of an input guarded by the burst protocol's uniqueness test.
EmitInput_Dedup(log, input) ==
    IF \E i \in 1..Len(log) :
          log[i].event = "input-detected" /\ log[i].payload.input_string = input.input_string
    THEN log
    ELSE Append(log, [event |-> "input-detected", payload |-> input])
\* The completion emitted on both branches of the deadline test.
EmitComplete_Twice(log) ==
    Append(Append(log, [event |-> "input-detection-complete",
                        payload |-> [session_id |-> session_id]]),
           [event |-> "input-detection-complete", payload |-> [session_id |-> session_id]])

\* window.emit("input-detected", &input)
EmitInput(log, input) == Append(log, InputDetected(input))
\* window.emit("input-detection-complete", DetectionComplete { .. })
EmitComplete(log) == Append(log, DetectionComplete)

RECURSIVE EmitAll(_, _)
EmitAll(log, inputs) ==
    IF inputs = <<>> THEN log
    ELSE EmitAll(EmitInput(log, inputs[1]), Tail(inputs))

\* if first_input_time.is_none() { first_input_time = Some(Instant::now()) }
MarkFirst(first, t) == IF first = NoTime THEN t ELSE first

\* The push without the uniqueness test.
AlreadyCollected_Never(list, input) == FALSE

\* collected_inputs.iter().any(|i| i.input_string == input.input_string)
AlreadyCollected(list, input) ==
    \E i \in 1..Len(list) : list[i].input_string = input.input_string

SessIdle ==
    /\ proto = "one" /\ session_id = "s1"
    /\ initial_timeout = 0 /\ collect_duration = 0
    /\ pc = "idle" /\ now = 0 /\ start = 0
    /\ first_input_time = NoTime
    /\ axis_states = [k \in AxisKeys |-> NoState]
    /\ xinput_prev_states = [i \in Slots |-> NoReading]
    /\ xinput_axis_states = [k \in XAxisKeys |-> NoState]
    /\ controller_id = 0
    /\ collected_inputs = <<>>
    /\ result = NoResult
    /\ emitted = <<>>
    /\ queue = <<>>
    /\ xhw = [i \in Slots |-> NoReading]
    /\ xhw_start = xhw
    /\ env_left = 0
    /\ accepted = <<>>

\* A capture entry point has been called: the arguments and what the
\* legacy backend's slots hold are the environment's choice.
Init ==
    /\ obs = <<>>
    /\ site_state = [s \in Sites |-> NoState]
    /\ site_fired = [s \in Sites |-> <<>>]
    /\ proto \in Protocols
    /\ session_id \in SessionIds
    /\ initial_timeout \in 0..MaxTimeout
    /\ collect_duration \in (IF proto = "one" THEN {0} ELSE 0..MaxTimeout)
    /\ pc = "init" /\ now = 0 /\ start = 0
    /\ first_input_time = NoTime
    /\ axis_states = [k \in AxisKeys |-> NoState]
    /\ xinput_prev_states = [i \in Slots |-> NoReading]
    /\ xinput_axis_states = [k \in XAxisKeys |-> NoState]
    /\ controller_id = 0
    /\ collected_inputs = <<>>
    /\ result = NoResult
    /\ emitted = <<>>
    /\ queue = <<>>
    /\ xhw \in [Slots -> {NoReading, XState({}, 0, 0), XState({4096}, 0, 0)}]
    /\ \A i \in Slots : xhw[i] # NoReading => xhw[i] \in XReadingsOf(i)
    /\ xhw_start = xhw
    /\ env_left = MaxEnv
    /\ accepted = <<>>
    /\ FnIdle
    /\ AuxIdle

\* Gilrs::new().map_err(..)? fails.
InitFailGilrs ==
    /\ pc = "init"
    /\ pc' = "error"
    /\ result' = Err("gilrs")
    /\ UNCHANGED <<xhw_start, proto, session_id, initial_timeout, collect_duration, now, start,
                   first_input_time, axis_states, xinput_prev_states,
                   xinput_axis_states, controller_id, collected_inputs, emitted,
                   queue, xhw, env_left, accepted>>

\* XInputHandle::load_default().map_err(..)? fails (the burst protocol does
\* not load XInput).
InitFailXInput ==
    /\ pc = "init"
    /\ proto \in {"one", "stream"}
    /\ pc' = "error"
    /\ result' = Err("Failed to load XInput")
    /\ UNCHANGED <<xhw_start, proto, session_id, initial_timeout, collect_duration, now, start,
                   first_input_time, axis_states, xinput_prev_states,
                   xinput_axis_states, controller_id, collected_inputs, emitted,
                   queue, xhw, env_left, accepted>>

\* Both backends are up; the XInput state of every slot that reads is
\* recorded; start = Instant::now().
InitOk ==
    /\ pc = "init"
    /\ pc' = "check"
    /\ start' = now
    /\ IF proto = "burst"
       THEN UNCHANGED <<xinput_prev_states, xinput_axis_states>>
       ELSE /\ xinput_prev_states' = XInitPrevStates
            /\ xinput_axis_states' = XInitAxisStates
    /\ UNCHANGED <<xhw_start, proto, session_id, initial_timeout, collect_duration, now,
                   first_input_time, axis_states, controller_id, collected_inputs,
                   result, emitted, queue, xhw, env_left, accepted>>

\* ---- the top of the loop
\* wait_for_input with its timeout surfaced as a failure value.
CheckWait_ErrOnTimeout ==
    /\ pc = "check" /\ proto = "one"
    /\ IF now - start < initial_timeout
       THEN pc' = "drain" /\ UNCHANGED result
       ELSE pc' = "done" /\ result' = [kind |-> "Err", value |-> "timeout"]
    /\ UNCHANGED <<xhw_start, proto, session_id, initial_timeout, collect_duration, now,
                   start, first_input_time, axis_states, xinput_prev_states,
                   xinput_axis_states, controller_id, collected_inputs, emitted,
                   queue, xhw, env_left, accepted>>

\* wait_for_input: while start.elapsed() < timeout { .. } Ok(None)
CheckWait ==
    /\ pc = "check" /\ proto = "one"
    /\ IF now - start < initial_timeout
       THEN pc' = "drain" /\ UNCHANGED result
       ELSE pc' = "done" /\ result' = Ok(NoInput)
    /\ UNCHANGED <<xhw_start, proto, session_id, initial_timeout, collect_duration, now, start,
                   first_input_time, axis_states, xinput_prev_states,
                   xinput_axis_states, controller_id, collected_inputs, emitted,
                   queue, xhw, env_left, accepted>>

\* The break conditions of wait_for_multiple_inputs and
\* wait_for_inputs_with_events.
DeadlineReached ==
    IF first_input_time = NoTime
    THEN now - start >= initial_timeout
    ELSE now - first_input_time >= collect_duration

\* wait_for_multiple_inputs: break, then Ok(collected_inputs).
CheckBurst ==
    /\ pc = "check" /\ proto = "burst"
    /\ IF DeadlineReached
       THEN pc' = "done" /\ result' = Ok(collected_inputs)
       ELSE pc' = "drain" /\ UNCHANGED result
    /\ UNCHANGED <<xhw_start, proto, session_id, initial_timeout, collect_duration, now, start,
                   first_input_time, axis_states, xinput_prev_states,
                   xinput_axis_states, controller_id, collected_inputs, emitted,
                   queue, xhw, env_left, accepted>>

\* wait_for_inputs_with_events: emit the completion, break, then Ok(()).
CheckStream ==
    /\ pc = "check" /\ proto = "stream"
    /\ IF DeadlineReached
       THEN pc' = "done" /\ result' = Ok("unit") /\ emitted' = EmitComplete(emitted)
       ELSE pc' = "drain" /\ UNCHANGED <<result, emitted>>
    /\ UNCHANGED <<xhw_start, proto, session_id, initial_timeout, collect_duration, now, start,
                   first_input_time, axis_states, xinput_prev_states,
                   xinput_axis_states, controller_id, collected_inputs,
                   queue, xhw, env_left, accepted>>

\* wait_for_input's arm without its `return`: the input is noted and the
\* loop goes on.
DrainEventWait_NoReturn ==
    /\ pc = "drain" /\ proto = "one" /\ queue # <<>>
    /\ LET r == WaitGenericEvent(Head(queue), axis_states)
       IN  /\ axis_states' = r.axis_states
           /\ IF r.input # NoInput
              THEN /\ result' = [kind |-> "Ok", value |-> r.input]
                   /\ accepted' = Append(accepted, r.input)
              ELSE UNCHANGED <<result, accepted>>
    /\ queue' = Tail(queue)
    /\ UNCHANGED <<xhw_start, proto, session_id, initial_timeout, collect_duration, pc, now, start,
                   first_input_time, xinput_prev_states, xinput_axis_states,
                   controller_id, collected_inputs, emitted, xhw, env_left>>

\* ---- the generic backend's queue
\* wait_for_input: while let Some(event) = gilrs.next_event() { .. }
DrainEventWait ==
    /\ pc = "drain" /\ proto = "one" /\ queue # <<>>
    /\ LET r == WaitGenericEvent(Head(queue), axis_states)
       IN  /\ axis_states' = r.axis_states
           /\ IF r.input # NoInput
              THEN /\ pc' = "done"
                   /\ result' = Ok(r.input)
                   /\ accepted' = Append(accepted, r.input)
              ELSE UNCHANGED <<pc, result, accepted>>
    /\ queue' = Tail(queue)
    /\ UNCHANGED <<xhw_start, proto, session_id, initial_timeout, collect_duration, now, start,
                   first_input_time, xinput_prev_states, xinput_axis_states,
                   controller_id, collected_inputs, emitted, xhw, env_left>>

\* Variant: the poll starts while events are still pending.
DrainEmptyWait_PendingLeft ==
    /\ pc = "drain" /\ proto = "one"
    /\ pc' = "xinput" /\ controller_id' = 0
    /\ UNCHANGED <<xhw_start, proto, session_id, initial_timeout, collect_duration, now, start,
                   first_input_time, axis_states, xinput_prev_states,
                   xinput_axis_states, collected_inputs, result, emitted, queue,
                   xhw, env_left, accepted>>

\* next_event() gives None: on to the XInput poll.
DrainEmptyWait ==
    /\ pc = "drain" /\ proto = "one" /\ queue = <<>>
    /\ pc' = "xinput" /\ controller_id' = 0
    /\ UNCHANGED <<xhw_start, proto, session_id, initial_timeout, collect_duration, now, start,
                   first_input_time, axis_states, xinput_prev_states,
                   xinput_axis_states, collected_inputs, result, emitted, queue,
                   xhw, env_left, accepted>>

\* wait_for_multiple_inputs:
\*   while let Some(event) = gilrs.next_event_blocking(Some(50 ms)) { .. }
\* The read gave an event after blocking for dt: at once (0), or just
\* before it would have timed out (TickInterval).
DrainEventBurst(dt) ==
    /\ pc = "drain" /\ proto = "burst" /\ queue # <<>>
    /\ now + dt <= MaxTime
    /\ now' = now + dt
    /\ LET r == BurstGenericEvent(Head(queue), axis_states)
       IN  /\ axis_states' = r.axis_states
           /\ IF r.input # NoInput
              THEN /\ accepted' = Append(accepted, r.input)
                   /\ IF ~AlreadyCollected(collected_inputs, r.input)
                      THEN /\ collected_inputs' = Append(collected_inputs, r.input)
                           /\ first_input_time' = MarkFirst(first_input_time, now')
                      ELSE UNCHANGED <<collected_inputs, first_input_time>>
              ELSE UNCHANGED <<accepted, collected_inputs, first_input_time>>
    /\ queue' = Tail(queue)
    /\ UNCHANGED <<xhw_start, proto, session_id, initial_timeout, collect_duration, start, pc,
                   xinput_prev_states, xinput_axis_states, controller_id, result,
                   emitted, xhw, env_left>>

\* The read timed out: back to the top of the loop.
DrainTimeoutBurst ==
    /\ pc = "drain" /\ proto = "burst" /\ queue = <<>>
    /\ now < MaxTime
    /\ now' = now + TickInterval
    /\ pc' = "check"
    /\ UNCHANGED <<xhw_start, proto, session_id, initial_timeout, collect_duration, start,
                   first_input_time, axis_states, xinput_prev_states,
                   xinput_axis_states, controller_id, collected_inputs, result,
                   emitted, queue, xhw, env_left, accepted>>

\* wait_for_inputs_with_events: the same blocking read; every input is
\* emitted at once.
DrainEventStream(dt) ==
    /\ pc = "drain" /\ proto = "stream" /\ queue # <<>>
    /\ now + dt <= MaxTime
    /\ now' = now + dt
    /\ LET r == StreamGenericEvent(Head(queue), axis_states)
       IN  /\ axis_states' = r.axis_states
           /\ IF r.input # NoInput
              THEN /\ accepted' = Append(accepted, r.input)
                   /\ emitted' = EmitInput(emitted, r.input)
                   /\ first_input_time' = MarkFirst(first_input_time, now')
              ELSE UNCHANGED <<accepted, emitted, first_input_time>>
    /\ queue' = Tail(queue)
    /\ UNCHANGED <<xhw_start, proto, session_id, initial_timeout, collect_duration, start, pc,
                   xinput_prev_states, xinput_axis_states, controller_id,
                   collected_inputs, result, xhw, env_left>>

\* The read timed out: on to the XInput poll.
DrainTimeoutStream ==
    /\ pc = "drain" /\ proto = "stream" /\ queue = <<>>
    /\ now < MaxTime
    /\ now' = now + TickInterval
    /\ pc' = "xinput" /\ controller_id' = 0
    /\ UNCHANGED <<xhw_start, proto, session_id, initial_timeout, collect_duration, start,
                   first_input_time, axis_states, xinput_prev_states,
                   xinput_axis_states, collected_inputs, result, emitted, queue,
                   xhw, env_left, accepted>>

\* ---- the legacy backend's poll: one iteration of `for controller_id in 0..4`
\* The pc after the last slot: wait_for_input sleeps, the stream goes back
\* to the top of its loop.
\* The poll loop left after its first slot.
AfterSlot_Break(slot, next_pc) == next_pc
AfterSlot(slot, next_pc) == IF slot = 3 THEN next_pc ELSE "xinput"

PollSlotWait ==
    /\ pc = "xinput" /\ proto = "one"
    /\ LET state == xhw[controller_id]
           prev_state == xinput_prev_states[controller_id]
       IN  IF state = NoReading
           THEN /\ pc' = AfterSlot(controller_id, "sleep")
                /\ UNCHANGED <<xinput_prev_states, xinput_axis_states, result, accepted>>
           ELSE IF prev_state = NoReading
           THEN /\ pc' = AfterSlot(controller_id, "sleep")
                /\ xinput_prev_states' = [xinput_prev_states EXCEPT ![controller_id] = state]
                /\ UNCHANGED <<xinput_axis_states, result, accepted>>
           ELSE LET r == WaitXInputPoll(controller_id, state, prev_state, xinput_axis_states)
                IN  /\ xinput_axis_states' = r.axis_states
                    /\ IF r.input # NoInput
                       THEN /\ pc' = "done"
                            /\ result' = Ok(r.input)
                            /\ accepted' = Append(accepted, r.input)
                            /\ UNCHANGED xinput_prev_states
                       ELSE /\ pc' = AfterSlot(controller_id, "sleep")
                            /\ xinput_prev_states' =
                                   [xinput_prev_states EXCEPT ![controller_id] = state]
                            /\ UNCHANGED <<result, accepted>>
    /\ controller_id' = IF pc' = "xinput" THEN controller_id + 1 ELSE controller_id
    /\ UNCHANGED <<xhw_start, proto, session_id, initial_timeout, collect_duration, now, start,
                   first_input_time, axis_states, collected_inputs, emitted, queue,
                   xhw, env_left>>

\* Variant: a failed read also drops the state stored for the slot.
PollSlotStream_ForgetOnFail ==
    /\ pc = "xinput" /\ proto = "stream"
    /\ LET state == xhw[controller_id]
           prev_state == xinput_prev_states[controller_id]
       IN  IF state = NoReading
           THEN /\ xinput_prev_states' =
                       [xinput_prev_states EXCEPT ![controller_id] = NoReading]
                /\ UNCHANGED <<xinput_axis_states, emitted, accepted, first_input_time>>
           ELSE IF prev_state = NoReading
           THEN /\ xinput_prev_states' = [xinput_prev_states EXCEPT ![controller_id] = state]
                /\ UNCHANGED <<xinput_axis_states, emitted, accepted, first_input_time>>
           ELSE LET r == StreamXInputPoll(controller_id, state, prev_state, xinput_axis_states)
                IN  /\ xinput_axis_states' = r.axis_states
                    /\ xinput_prev_states' =
                           [xinput_prev_states EXCEPT ![controller_id] = state]
                    /\ emitted' = EmitAll(emitted, r.inputs)
                    /\ accepted' = accepted \o r.inputs
                    /\ first_input_time' =
                           IF r.inputs # <<>> THEN MarkFirst(first_input_time, now)
                           ELSE first_input_time
    /\ pc' = AfterSlot(controller_id, "check")
    /\ controller_id' = IF pc' = "xinput" THEN controller_id + 1 ELSE controller_id
    /\ UNCHANGED <<xhw_start, proto, session_id, initial_timeout, collect_duration, now, start,
                   axis_states, collected_inputs, result, queue, xhw, env_left>>

PollSlotStream ==
    /\ pc = "xinput" /\ proto = "stream"
    /\ LET state == xhw[controller_id]
           prev_state == xinput_prev_states[controller_id]
       IN  IF state = NoReading
           THEN UNCHANGED <<xinput_prev_states, xinput_axis_states, emitted, accepted,
                            first_input_time>>
           ELSE IF prev_state = NoReading
           THEN /\ xinput_prev_states' = [xinput_prev_states EXCEPT ![controller_id] = state]
                /\ UNCHANGED <<xinput_axis_states, emitted, accepted, first_input_time>>
           ELSE LET r == StreamXInputPoll(controller_id, state, prev_state, xinput_axis_states)
                IN  /\ xinput_axis_states' = r.axis_states
                    /\ xinput_prev_states' =
                           [xinput_prev_states EXCEPT ![controller_id] = state]
                    /\ emitted' = EmitAll(emitted, r.inputs)
                    /\ accepted' = accepted \o r.inputs
                    /\ first_input_time' =
                           IF r.inputs # <<>> THEN MarkFirst(first_input_time, now)
                           ELSE first_input_time
    /\ pc' = AfterSlot(controller_id, "check")
    /\ controller_id' = IF pc' = "xinput" THEN controller_id + 1 ELSE controller_id
    /\ UNCHANGED <<xhw_start, proto, session_id, initial_timeout, collect_duration, now, start,
                   axis_states, collected_inputs, result, queue, xhw, env_left>>

\* std::thread::sleep(Duration::from_millis(10)) at the end of wait_for_input's loop.
Sleep ==
    /\ pc = "sleep"
    /\ now < MaxTime
    /\ now' = now + TickInterval
    /\ pc' = "check"
    /\ UNCHANGED <<xhw_start, proto, session_id, initial_timeout, collect_duration, start,
                   first_input_time, axis_states, xinput_prev_states,
                   xinput_axis_states, controller_id, collected_inputs, result,
                   emitted, queue, xhw, env_left, accepted>>

\* ---- the environment
\* A device produces an event: the generic backend queues it.
Arrive(e) ==
    /\ pc = "drain"
    /\ env_left > 0
    /\ Len(queue) < MaxQueue
    /\ queue' = Append(queue, e)
    /\ env_left' = env_left - 1
    /\ UNCHANGED <<xhw_start, proto, session_id, initial_timeout, collect_duration, pc, now, start,
                   first_input_time, axis_states, xinput_prev_states,
                   xinput_axis_states, controller_id, collected_inputs, result,
                   emitted, xhw, accepted>>

\* What XInputGetState reports for a slot changes.
XChange(slot, reading) ==
    /\ \/ pc = "xinput" /\ controller_id = slot
       \/ pc = "drain" /\ proto = "burst"
    /\ env_left > 0
    /\ reading # xhw[slot]
    /\ xhw' = [xhw EXCEPT ![slot] = reading]
    /\ env_left' = env_left - 1
    /\ UNCHANGED <<xhw_start, proto, session_id, initial_timeout, collect_duration, pc, now, start,
                   first_input_time, axis_states, xinput_prev_states,
                   xinput_axis_states, controller_id, collected_inputs, result,
                   emitted, queue, accepted>>

Next ==
    \/ (InitFailGilrs /\ UNCHANGED debVars /\ UNCHANGED fnVars /\ UNCHANGED auxVars)
    \/ (InitFailXInput /\ UNCHANGED debVars /\ UNCHANGED fnVars /\ UNCHANGED auxVars)
    \/ (InitOk /\ UNCHANGED debVars /\ UNCHANGED fnVars /\ UNCHANGED auxVars)
    \/ (CheckWait /\ UNCHANGED debVars /\ UNCHANGED fnVars /\ UNCHANGED auxVars)
    \/ (CheckBurst /\ UNCHANGED debVars /\ UNCHANGED fnVars /\ UNCHANGED auxVars)
    \/ (CheckStream /\ UNCHANGED debVars /\ UNCHANGED fnVars /\ UNCHANGED auxVars)
    \/ (DrainEventWait /\ UNCHANGED debVars /\ UNCHANGED fnVars /\ UNCHANGED auxVars)
    \/ (DrainEmptyWait /\ UNCHANGED debVars /\ UNCHANGED fnVars /\ UNCHANGED auxVars)
    \/ (\E dt \in {0, TickInterval} : DrainEventBurst(dt) /\ UNCHANGED debVars /\ UNCHANGED fnVars /\ UNCHANGED auxVars)
    \/ (DrainTimeoutBurst /\ UNCHANGED debVars /\ UNCHANGED fnVars /\ UNCHANGED auxVars)
    \/ (\E dt \in {0, TickInterval} : DrainEventStream(dt) /\ UNCHANGED debVars /\ UNCHANGED fnVars /\ UNCHANGED auxVars)
    \/ (DrainTimeoutStream /\ UNCHANGED debVars /\ UNCHANGED fnVars /\ UNCHANGED auxVars)
    \/ (PollSlotWait /\ UNCHANGED debVars /\ UNCHANGED fnVars /\ UNCHANGED auxVars)
    \/ (PollSlotStream /\ UNCHANGED debVars /\ UNCHANGED fnVars /\ UNCHANGED auxVars)
    \/ (Sleep /\ UNCHANGED debVars /\ UNCHANGED fnVars /\ UNCHANGED auxVars)
    \/ (\E e \in GenericEvents : Arrive(e) /\ UNCHANGED debVars /\ UNCHANGED fnVars /\ UNCHANGED auxVars)
    \/ (\E slot \in Slots : \E reading \in XReadingsOf(slot) \cup {NoReading} :
            XChange(slot, reading) /\ UNCHANGED debVars /\ UNCHANGED fnVars /\ UNCHANGED auxVars)

Spec == Init /\ [][Next]_vars

\* ----------------------------------------------------- debouncer harness

DebInit ==
    /\ obs = <<>>
    /\ site_state = [s \in Sites |-> NoState]
    /\ site_fired = [s \in Sites |-> <<>>]
    /\ SessIdle
    /\ FnIdle
    /\ AuxIdle

\* The same observation is fed to the axis at every call site.
DebObserve(value) ==
    /\ Len(obs) < MaxObs
    /\ obs' = Append(obs, value)
    /\ site_state' = [s \in Sites |-> ObserveAt(s, site_state[s], value).state]
    /\ site_fired' = [s \in Sites |->
                        Append(site_fired[s], ObserveAt(s, site_state[s], value).fire)]
    /\ UNCHANGED sessVars
    /\ UNCHANGED fnVars /\ UNCHANGED auxVars

DebNext == \E value \in DebValues : DebObserve(value)

SpecDeb == DebInit /\ [][DebNext]_vars

\* ------------------------------------------- pure functions, one call
\* Device names: the words device names are made of (brands, models, kinds
\* of device, and words that say nothing), alone and in pairs, in lower,
\* upper and mixed case, and the names of the connected devices.
NameWords == {
    <<"j", "o", "y", "s", "t", "i", "c", "k">>,
    <<"h", "o", "t", "a", "s">>,
    <<"t", "h", "r", "o", "t", "t", "l", "e">>,
    <<"g", "l", "a", "d", "i", "a", "t", "o", "r">>,
    <<"w", "a", "r", "t", "h", "o", "g">>,
    <<"t", "1", "6", "0", "0", "0">>,
    <<"v", "k", "b">>,
    <<"v", "k", "b", "s", "i", "m">>,
    <<"v", "i", "r", "p", "i", "l">>,
    <<"t", "h", "r", "u", "s", "t", "m", "a", "s", "t", "e", "r">>,
    <<"s", "a", "i", "t", "e", "k">>,
    <<"x", "5", "2">>,
    <<"x", "5", "6">>,
    <<"x", "b", "o", "x">>,
    <<"p", "l", "a", "y", "s", "t", "a", "t", "i", "o", "n">>,
    <<"d", "u", "a", "l", "s", "h", "o", "c", "k">>,
    <<"d", "u", "a", "l", "s", "e", "n", "s", "e">>,
    <<"p", "s", "3">>,
    <<"p", "s", "4">>,
    <<"p", "s", "5">>,
    <<"c", "o", "n", "t", "r", "o", "l", "l", "e", "r", " ", "f", "o", "r", " ", "w", "i", "n", "d", "o", "w", "s">>,
    <<"g", "a", "m", "e", "p", "a", "d">>,
    <<"x", "i", "n", "p", "u", "t">>,
    <<"u", "s", "b">>,
    <<"f", "l", "i", "g", "h", "t">>,
    <<"p", "a", "d">> }
Names ==
    NameWords
    \cup {ToUppercase(w) : w \in NameWords}
    \cup {w1 \o <<" ">> \o w2 : w1 \in NameWords, w2 \in NameWords}
    \cup {ToUppercase(w1) \o <<" ">> \o w2 : w1 \in NameWords, w2 \in NameWords}
    \cup {Gamepads[i].name : i \in 1..Len(Gamepads)}

\* Signatures: none, the one of the connected joystick, one non-zero byte
\* at either end, every byte 255.
MaxFallbackId == 10
FnByteValues == {1, 15, 16, 255}
FnUuids ==
    {ZeroUuid, VkbUuid, [i \in 1..UuidLen |-> 255]}
    \cup {[i \in 1..UuidLen |-> IF i = p THEN v ELSE 0] : p \in {1, UuidLen}, v \in FnByteValues}
FnGamepads ==
    {[name |-> Gamepads[i].name, map_name |-> m, uuid |-> u] :
        i \in 1..Len(Gamepads), m \in {<<>>, <<"p", "a", "d">>}, u \in FnUuids}

FnCalls ==
    {[fn |-> "is_gamepad", name |-> name] : name \in Names}
    \cup {[fn |-> "resolve_device_uuid", gamepad |-> g, fallback_id |-> id] :
            g \in FnGamepads, id \in 0..MaxFallbackId}
    \cup {[fn |-> "resolve_xinput_uuid", slot |-> slot] : slot \in Slots}

FnInit ==
    /\ obs = <<>>
    /\ site_state = [s \in Sites |-> NoState]
    /\ site_fired = [s \in Sites |-> <<>>]
    /\ SessIdle
    /\ fn_call \in FnCalls
    /\ fn_ret = NoReturn
    /\ AuxIdle

ApplyIsGamepad ==
    /\ ~fn_ret.done
    /\ fn_call.fn = "is_gamepad"
    /\ fn_ret' = Return(is_gamepad(fn_call.name))
    /\ UNCHANGED <<fn_call, sessVars, debVars, auxVars>>

ApplyResolveDeviceUuid ==
    /\ ~fn_ret.done
    /\ fn_call.fn = "resolve_device_uuid"
    /\ fn_ret' = Return(resolve_device_uuid(fn_call.gamepad, fn_call.fallback_id))
    /\ UNCHANGED <<fn_call, sessVars, debVars, auxVars>>

ApplyResolveXInputUuid ==
    /\ ~fn_ret.done
    /\ fn_call.fn = "resolve_xinput_uuid"
    /\ fn_ret' = Return(resolve_xinput_uuid(fn_call.slot))
    /\ UNCHANGED <<fn_call, sessVars, debVars, auxVars>>

FnNext == ApplyIsGamepad \/ ApplyResolveDeviceUuid \/ ApplyResolveXInputUuid

SpecFn == FnInit /\ [][FnNext]_vars

\* ------------------------------------------- HidAxisTracker, its calls
HidInit ==
    /\ obs = <<>>
    /\ site_state = [s \in Sites |-> NoState]
    /\ site_fired = [s \in Sites |-> <<>>]
    /\ SessIdle
    /\ FnIdle
    /\ HidIdle
    /\ WatchIdle
    /\ PeerIdle
    /\ CallersIdle

\* fn HidAxisTracker::process_report
process_report(report) ==
    /\ Len(hid_history) < MaxReports
    /\ LET counts == BumpCounts(tracker.axis_change_counts,
                                ChangedIndices(tracker.previous_report, report))
       IN  /\ hid_ret' = AxisValues(counts, report)
           /\ tracker' = [previous_report |-> StorePrevious(tracker.previous_report, report),
                          axis_change_counts |-> counts]
    /\ hid_history' = Append(hid_history, report)
    /\ UNCHANGED <<sessVars, debVars, fnVars, watchVars, pairVars, poolVars>>

HidNext == \E report \in HidReports : process_report(report)

SpecHid == HidInit /\ [][HidNext]_vars

\* ------------------------- detect_axis_movement_for_device, one call
WATCH_DEADZONE == 15
\* thread::sleep(Duration::from_millis(5)), the unit of the call's clock;
\* timeout_millis is counted in the same unit.
WatchInterval == 1

WatchValues == {-60, 15, 16}
\* What the devices send while the call runs: movements of axis 1 of the
\* joystick inside, on the edge of and outside the deadzone, a movement of
\* another axis, one whose code carries no index, a movement on the other
\* device, and a button.
WatchEvents ==
    {AxisChanged(0, v, Code("index", "Axis", 0)) : v \in WatchValues}
    \cup {AxisChanged(0, 60, Code("index", "Axis", MaxCodeIndex)),
          AxisChanged(0, 100, Code("code", "Axis", 0)),
          AxisChanged(1, 60, Code("index", "Axis", 0)),
          ButtonPressed(0, "South", Code("index", "Button", 0))}
WatchTargets == {resolve_device_uuid(Gamepads[id + 1], id) : id \in DeviceIds}

\* Variant: the first movement found is kept.
TrackMovement_KeepFirst(latest_movement, event, target_uuid) ==
    IF event.type # "AxisChanged" THEN latest_movement
    ELSE IF resolve_device_uuid(Gamepads[event.id + 1], event.id) # target_uuid
    THEN latest_movement
    ELSE IF Abs(event.value) > WATCH_DEADZONE /\ extract_index_from_code(event.code) # {}
            /\ latest_movement = NoMovement
    THEN AxisMovement(CHOOSE index \in extract_index_from_code(event.code) : TRUE,
                      event.value)
    ELSE latest_movement

\* Variant: movements of every device are tracked.
TrackMovement_AnyDevice(latest_movement, event, target_uuid) ==
    IF event.type # "AxisChanged" THEN latest_movement
    ELSE IF Abs(event.value) > WATCH_DEADZONE /\ extract_index_from_code(event.code) # {}
    THEN AxisMovement(CHOOSE index \in extract_index_from_code(event.code) : TRUE,
                      event.value)
    ELSE latest_movement

\* The body of `while let Some(event) = gilrs.next_event()`: latest_movement
\* after one event.
TrackMovement(latest_movement, event, target_uuid) ==
    IF event.type # "AxisChanged" THEN latest_movement
    ELSE IF resolve_device_uuid(Gamepads[event.id + 1], event.id) # target_uuid
    THEN latest_movement
    ELSE IF Abs(event.value) > WATCH_DEADZONE /\ extract_index_from_code(event.code) # {}
    THEN AxisMovement(CHOOSE index \in extract_index_from_code(event.code) : TRUE,
                      event.value)
    ELSE latest_movement

\* The call starts: the static may or may not have been initialised by an
\* earlier call.
WatchInit ==
    /\ obs = <<>>
    /\ site_state = [s \in Sites |-> NoState]
    /\ site_fired = [s \in Sites |-> <<>>]
    /\ SessIdle
    /\ FnIdle
    /\ HidIdle
    /\ PeerIdle
    /\ CallersIdle
    /\ GILRS_INSTANCE \in {[some |-> b, events |-> <<>>] : b \in BOOLEAN}
    /\ watch \in {[pc |-> "check", target_uuid |-> t, timeout |-> m, start |-> 0,
                   now |-> 0, latest_movement |-> NoMovement, result |-> NoResult] :
                      t \in WatchTargets, m \in 0..(MaxTimeout + 1)}
    /\ watch_seen = <<>>
    /\ watch_env = MaxEnv

WatchFrame == UNCHANGED <<sessVars, debVars, fnVars, hidVars, pairVars, poolVars>>

\* while start.elapsed() < timeout { .. } Ok(None)
WatchCheck ==
    /\ watch.pc = "check"
    /\ watch' = IF watch.now - watch.start < watch.timeout
                THEN [watch EXCEPT !.pc = "lock"]
                ELSE [watch EXCEPT !.pc = "done", !.result = Ok(NoMovement)]
    /\ UNCHANGED <<GILRS_INSTANCE, watch_seen, watch_env>>
    /\ WatchFrame

\* The lock is taken and the instance is there: latest_movement = None.
WatchLock ==
    /\ watch.pc = "lock"
    /\ GILRS_INSTANCE.some
    /\ watch' = [watch EXCEPT !.pc = "drain", !.latest_movement = NoMovement]
    /\ UNCHANGED <<GILRS_INSTANCE, watch_seen, watch_env>>
    /\ WatchFrame

\* *gilrs_lock = Some(Gilrs::new()?) succeeds.
WatchLockCreate ==
    /\ watch.pc = "lock"
    /\ ~GILRS_INSTANCE.some
    /\ GILRS_INSTANCE' = [some |-> TRUE, events |-> <<>>]
    /\ watch' = [watch EXCEPT !.pc = "drain", !.latest_movement = NoMovement]
    /\ UNCHANGED <<watch_seen, watch_env>>
    /\ WatchFrame

\* Gilrs::new().map_err(|e| e.to_string())? fails.
WatchLockFail ==
    /\ watch.pc = "lock"
    /\ ~GILRS_INSTANCE.some
    /\ watch' = [watch EXCEPT !.pc = "error", !.result = Err("gilrs")]
    /\ UNCHANGED <<GILRS_INSTANCE, watch_seen, watch_env>>
    /\ WatchFrame

\* while let Some(event) = gilrs.next_event(), one event.
WatchDrainEvent ==
    /\ watch.pc = "drain"
    /\ GILRS_INSTANCE.events # <<>>
    /\ LET event == Head(GILRS_INSTANCE.events)
       IN  /\ watch' = [watch EXCEPT !.latest_movement =
                           TrackMovement(watch.latest_movement, event, watch.target_uuid)]
           /\ watch_seen' = Append(watch_seen, event)
    /\ GILRS_INSTANCE' = [GILRS_INSTANCE EXCEPT !.events = Tail(@)]
    /\ UNCHANGED watch_env
    /\ WatchFrame

\* next_event() gives None: return the movement if there is one, else
\* release the lock and sleep.
WatchDrainEnd ==
    /\ watch.pc = "drain"
    /\ GILRS_INSTANCE.events = <<>>
    /\ watch' = IF watch.latest_movement # NoMovement
                THEN [watch EXCEPT !.pc = "done", !.result = Ok(watch.latest_movement)]
                ELSE [watch EXCEPT !.pc = "sleep"]
    /\ UNCHANGED <<GILRS_INSTANCE, watch_seen, watch_env>>
    /\ WatchFrame

WatchSleep ==
    /\ watch.pc = "sleep"
    /\ watch.now + WatchInterval <= MaxTime
    /\ watch' = [watch EXCEPT !.pc = "check", !.now = @ + WatchInterval]
    /\ UNCHANGED <<GILRS_INSTANCE, watch_seen, watch_env>>
    /\ WatchFrame

\* A device sends an event; the instance, once created, holds it until it
\* is taken.
WatchArrive(event) ==
    /\ watch.pc \in {"check", "lock", "drain", "sleep"}
    /\ GILRS_INSTANCE.some
    /\ watch_env > 0
    /\ Len(GILRS_INSTANCE.events) < MaxQueue
    /\ GILRS_INSTANCE' = [GILRS_INSTANCE EXCEPT !.events = Append(@, event)]
    /\ watch_env' = watch_env - 1
    /\ UNCHANGED <<watch, watch_seen>>
    /\ WatchFrame

WatchNext ==
    \/ WatchCheck
    \/ WatchLock
    \/ WatchLockCreate
    \/ WatchLockFail
    \/ WatchDrainEvent
    \/ WatchDrainEnd
    \/ WatchSleep
    \/ \E event \in WatchEvents : WatchArrive(event)

SpecWatch == WatchInit /\ [][WatchNext]_vars

\* ------------------------------------------- two sessions at once
\* Each capture command runs on its own blocking worker
\* (tokio::task::spawn_blocking); the session of the variables above runs
\* beside a second one whose locals are the record `peer`.  The second
\* session has its own Gilrs instance, which hands it its own events; the
\* slots of the legacy backend are the same hardware for both.
MaxPeer == 2
MaxPairEnv == 2

\* The locals of a capture entry point after initialisation.
PeerNew(peer_proto, peer_session) ==
    [pc |-> "run", proto |-> peer_proto, session_id |-> peer_session,
     axis_states |-> [k \in AxisKeys |-> NoState],
     xinput_prev_states |->
        IF peer_proto = "burst" THEN [i \in Slots |-> NoReading] ELSE XInitPrevStates,
     xinput_axis_states |->
        IF peer_proto = "burst" THEN [k \in XAxisKeys |-> NoState] ELSE XInitAxisStates,
     first_input_time |-> NoTime,
     collected_inputs |-> <<>>,
     emitted |-> <<>>,
     result |-> NoResult]

\* session_id: session_id.clone() of the second session.
PeerInput(input) ==
    IF input = NoInput THEN NoInput ELSE [input EXCEPT !.session_id = peer.session_id]

\* What the second session's Gilrs instance hands it: movements of the axis
\* the first session also hears from, and a button.
PeerEvents ==
    {AxisChanged(1, v, Code("index", "Axis", MaxCodeIndex)) : v \in SessValues}
    \cup {ButtonPressed(1, "South", Code("index", "Button", MaxCodeIndex))}

PairInit ==
    /\ obs = <<>>
    /\ site_state = [s \in Sites |-> NoState]
    /\ site_fired = [s \in Sites |-> <<>>]
    /\ proto \in Protocols
    /\ session_id = "s1"
    /\ initial_timeout = MaxTimeout
    /\ collect_duration = 0
    /\ pc = "init" /\ now = 0 /\ start = 0
    /\ first_input_time = NoTime
    /\ axis_states = [k \in AxisKeys |-> NoState]
    /\ xinput_prev_states = [i \in Slots |-> NoReading]
    /\ xinput_axis_states = [k \in XAxisKeys |-> NoState]
    /\ controller_id = 0
    /\ collected_inputs = <<>>
    /\ result = NoResult
    /\ emitted = <<>>
    /\ queue = <<>>
    /\ xhw = [i \in Slots |-> IF i = 0 THEN XState({}, 0, 0) ELSE NoReading]
    /\ xhw_start = xhw
    /\ env_left = MaxPairEnv
    /\ accepted = <<>>
    /\ FnIdle
    /\ HidIdle
    /\ WatchIdle
    /\ CallersIdle
    /\ peer \in {PeerNew(peer_proto, "s2") : peer_proto \in Protocols}
    /\ peer_left = MaxPeer

PeerFrame == UNCHANGED <<sessVars, debVars, fnVars, hidVars, watchVars, poolVars>>

\* The generic-event arm of the second session's protocol, on its own table.
PeerGenericEvent(e, states) ==
    CASE peer.proto = "one" -> WaitGenericEvent(e, states)
      [] peer.proto = "burst" -> BurstGenericEvent(e, states)
      [] peer.proto = "stream" -> StreamGenericEvent(e, states)

\* What the second session does with an accepted input.
PeerAccept(p, input) ==
    CASE p.proto = "one" -> [p EXCEPT !.pc = "done", !.result = Ok(input)]
      [] p.proto = "burst" ->
            IF AlreadyCollected(p.collected_inputs, input) THEN p
            ELSE [p EXCEPT !.collected_inputs = Append(@, input),
                           !.first_input_time = MarkFirst(@, now)]
      [] p.proto = "stream" ->
            [p EXCEPT !.emitted = EmitInput(@, input),
                      !.first_input_time = MarkFirst(@, now)]

RECURSIVE PeerAcceptAll(_, _)
PeerAcceptAll(p, inputs) ==
    IF inputs = <<>> THEN p
    ELSE PeerAcceptAll(PeerAccept(p, PeerInput(inputs[1])), Tail(inputs))

\* Variant: the AxisState table is one table for both sessions.
PeerEvent_SharedTable(e) ==
    /\ peer.pc = "run"
    /\ peer_left > 0
    /\ peer_left' = peer_left - 1
    /\ LET r == PeerGenericEvent(e, axis_states)
       IN  /\ axis_states' = r.axis_states
           /\ peer' = IF r.input = NoInput THEN peer
                      ELSE PeerAccept(peer, PeerInput(r.input))
    /\ UNCHANGED <<xhw_start, proto, session_id, initial_timeout, collect_duration, pc, now,
                   start, first_input_time, xinput_prev_states, xinput_axis_states,
                   controller_id, collected_inputs, result, emitted, queue, xhw, env_left,
                   accepted>>
    /\ UNCHANGED <<debVars, fnVars, hidVars, watchVars, poolVars>>

\* The second session takes an event from its own Gilrs instance.
PeerEvent(e) ==
    /\ peer.pc = "run"
    /\ peer_left > 0
    /\ peer_left' = peer_left - 1
    /\ LET r == PeerGenericEvent(e, peer.axis_states)
           p == [peer EXCEPT !.axis_states = r.axis_states]
       IN  peer' = IF r.input = NoInput THEN p
                   ELSE PeerAccept(p, PeerInput(r.input))
    /\ PeerFrame

\* The second session polls one slot of the legacy backend
\* (wait_for_multiple_inputs has no such poll).
PeerPoll(slot) ==
    /\ peer.pc = "run" /\ peer.proto # "burst"
    /\ peer_left > 0
    /\ peer_left' = peer_left - 1
    /\ LET state == xhw[slot]
           prev_state == peer.xinput_prev_states[slot]
       IN  IF state = NoReading THEN peer' = peer
           ELSE IF prev_state = NoReading
           THEN peer' = [peer EXCEPT !.xinput_prev_states[slot] = state]
           ELSE IF peer.proto = "one"
           THEN LET r == WaitXInputPoll(slot, state, prev_state, peer.xinput_axis_states)
                    p == [peer EXCEPT !.xinput_axis_states = r.axis_states]
                IN  peer' = IF r.input # NoInput
                            THEN PeerAccept(p, PeerInput(r.input))
                            ELSE [p EXCEPT !.xinput_prev_states[slot] = state]
           ELSE LET r == StreamXInputPoll(slot, state, prev_state, peer.xinput_axis_states)
                    p == [peer EXCEPT !.xinput_axis_states = r.axis_states,
                                      !.xinput_prev_states[slot] = state]
                IN  peer' = PeerAcceptAll(p, r.inputs)
    /\ PeerFrame

\* The second session's deadline passes.
PeerFinish ==
    /\ peer.pc = "run"
    /\ peer' = CASE peer.proto = "one" -> [peer EXCEPT !.pc = "done", !.result = Ok(NoInput)]
                 [] peer.proto = "burst" ->
                       [peer EXCEPT !.pc = "done", !.result = Ok(peer.collected_inputs)]
                 [] peer.proto = "stream" ->
                       [peer EXCEPT !.pc = "done", !.result = Ok(<<>>),
                                    !.emitted = Append(@,
                                        [event |-> "input-detection-complete",
                                         payload |-> [session_id |-> peer.session_id]])]
    /\ UNCHANGED peer_left
    /\ PeerFrame

PeerNext ==
    \/ \E e \in PeerEvents : PeerEvent(e)
    \/ \E slot \in Slots : PeerPoll(slot)
    \/ PeerFinish

PairNext == Next \/ PeerNext

SpecPair == PairInit /\ [][PairNext]_vars

\* ------------- detect_axis_movement_for_device, calls on several threads
\* The function takes GILRS_INSTANCE's mutex in every iteration of its loop
\* and gives it back before it sleeps or returns.  Callers are numbered from
\* 1; each is started once, at any time.
Callers == 1..2
MaxPoolEnv == 2
MaxPoolLiveEnv == 1
MaxPoolTime == 3
\* What the devices send while the calls run: a movement of the joystick,
\* a movement of the second device, and one of the second device inside the
\* deadzone.
PoolEvents ==
    {AxisChanged(0, 60, Code("index", "Axis", 0)),
     AxisChanged(1, -60, Code("index", "Axis", 0)),
     AxisChanged(1, 15, Code("index", "Axis", 0))}
TargetOf(id) == resolve_device_uuid(Gamepads[id + 1], id)

\* No call has started and the static holds no instance; the devices will
\* send up to `budget` events.
PoolInitWith(budget) ==
    /\ obs = <<>>
    /\ site_state = [s \in Sites |-> NoState]
    /\ site_fired = [s \in Sites |-> <<>>]
    /\ SessIdle
    /\ FnIdle
    /\ HidIdle
    /\ PeerIdle
    /\ GILRS_INSTANCE = [some |-> FALSE, events |-> <<>>]
    /\ watch = [pc |-> "idle"]
    /\ watch_seen = <<>>
    /\ watch_env = budget
    /\ callers \in [Callers ->
          {[pc |-> "idle", target_uuid |-> t, timeout |-> m, start |-> 0,
            latest_movement |-> NoMovement, result |-> NoResult, wake |-> 0] :
              t \in WatchTargets, m \in 1..(MaxTimeout + 1)}]
    /\ callers[1].target_uuid = TargetOf(0)
    /\ gilrs_mutex = 0
    /\ wclock = 0
    /\ drained = <<>>
    /\ created = 0

PoolInit == PoolInitWith(MaxPoolEnv)

PoolFrame == UNCHANGED <<sessVars, debVars, fnVars, hidVars, pairVars, watch, watch_seen>>

\* A thread calls the function: let start = Instant::now().
PoolStart(c) ==
    /\ callers[c].pc = "idle"
    /\ wclock + callers[c].timeout <= MaxPoolTime
    /\ callers' = [callers EXCEPT ![c].pc = "check", ![c].start = wclock]
    /\ UNCHANGED <<GILRS_INSTANCE, watch_env, gilrs_mutex, wclock, drained, created>>
    /\ PoolFrame

\* while start.elapsed() < timeout { .. } Ok(None)
PoolCheck(c) ==
    /\ callers[c].pc = "check"
    /\ callers' = IF wclock - callers[c].start < callers[c].timeout
                  THEN [callers EXCEPT ![c].pc = "lock"]
                  ELSE [callers EXCEPT ![c].pc = "done", ![c].result = Ok(NoMovement)]
    /\ UNCHANGED <<GILRS_INSTANCE, watch_env, gilrs_mutex, wclock, drained, created>>
    /\ PoolFrame

\* Variant: the instance is reached without waiting for the mutex.
PoolLock_NoWait(c) ==
    /\ callers[c].pc = "lock"
    /\ gilrs_mutex' = c
    /\ callers' = [callers EXCEPT ![c].pc = "locked"]
    /\ UNCHANGED <<GILRS_INSTANCE, watch_env, wclock, drained, created>>
    /\ PoolFrame

\* GILRS_INSTANCE.lock() returns the guard once no other call holds it.
PoolLock(c) ==
    /\ callers[c].pc = "lock"
    /\ gilrs_mutex = 0
    /\ gilrs_mutex' = c
    /\ callers' = [callers EXCEPT ![c].pc = "locked"]
    /\ UNCHANGED <<GILRS_INSTANCE, watch_env, wclock, drained, created>>
    /\ PoolFrame

\* gilrs_lock.is_none() is false: latest_movement = None, on to the drain.
PoolHave(c) ==
    /\ callers[c].pc = "locked"
    /\ GILRS_INSTANCE.some
    /\ callers' = [callers EXCEPT ![c].pc = "drain", ![c].latest_movement = NoMovement]
    /\ UNCHANGED <<GILRS_INSTANCE, watch_env, gilrs_mutex, wclock, drained, created>>
    /\ PoolFrame

\* *gilrs_lock = Some(Gilrs::new()?) succeeds.
PoolCreate(c) ==
    /\ callers[c].pc = "locked"
    /\ ~GILRS_INSTANCE.some
    /\ GILRS_INSTANCE' = [some |-> TRUE, events |-> <<>>]
    /\ created' = created + 1
    /\ callers' = [callers EXCEPT ![c].pc = "drain", ![c].latest_movement = NoMovement]
    /\ UNCHANGED <<watch_env, gilrs_mutex, wclock, drained>>
    /\ PoolFrame

\* Variant: the error return keeps the guard.
PoolCreateFail_KeepGuard(c) ==
    /\ callers[c].pc = "locked"
    /\ ~GILRS_INSTANCE.some
    /\ callers' = [callers EXCEPT ![c].pc = "error", ![c].result = Err("gilrs")]
    /\ UNCHANGED <<GILRS_INSTANCE, watch_env, gilrs_mutex, wclock, drained, created>>
    /\ PoolFrame

\* Gilrs::new().map_err(|e| e.to_string())? fails: the function returns and
\* the guard is dropped with its scope.
PoolCreateFail(c) ==
    /\ callers[c].pc = "locked"
    /\ ~GILRS_INSTANCE.some
    /\ callers' = [callers EXCEPT ![c].pc = "error", ![c].result = Err("gilrs")]
    /\ gilrs_mutex' = 0
    /\ UNCHANGED <<GILRS_INSTANCE, watch_env, wclock, drained, created>>
    /\ PoolFrame

\* while let Some(event) = gilrs.next_event(), one event.
PoolDrainEvent(c) ==
    /\ callers[c].pc = "drain"
    /\ GILRS_INSTANCE.events # <<>>
    /\ LET event == Head(GILRS_INSTANCE.events)
       IN  /\ callers' = [callers EXCEPT ![c].latest_movement =
                             TrackMovement(callers[c].latest_movement, event,
                                           callers[c].target_uuid)]
           /\ drained' = Append(drained, [by |-> c, event |-> event])
    /\ GILRS_INSTANCE' = [GILRS_INSTANCE EXCEPT !.events = Tail(@)]
    /\ UNCHANGED <<watch_env, gilrs_mutex, wclock, created>>
    /\ PoolFrame

\* next_event() gives None: return Ok(latest_movement) if there is one
\* (the guard is dropped with its scope), else drop(gilrs_lock) and sleep.
PoolDrainEnd(c) ==
    /\ callers[c].pc = "drain"
    /\ GILRS_INSTANCE.events = <<>>
    /\ callers' = IF callers[c].latest_movement # NoMovement
                  THEN [callers EXCEPT ![c].pc = "done",
                                       ![c].result = Ok(callers[c].latest_movement)]
                  ELSE [callers EXCEPT ![c].pc = "sleep",
                                       ![c].wake = Min(wclock + WatchInterval, MaxPoolTime)]
    /\ gilrs_mutex' = 0
    /\ UNCHANGED <<GILRS_INSTANCE, watch_env, wclock, drained, created>>
    /\ PoolFrame

\* thread::sleep(Duration::from_millis(5)) is over.
PoolWake(c) ==
    /\ callers[c].pc = "sleep"
    /\ wclock >= callers[c].wake
    /\ callers' = [callers EXCEPT ![c].pc = "check"]
    /\ UNCHANGED <<GILRS_INSTANCE, watch_env, gilrs_mutex, wclock, drained, created>>
    /\ PoolFrame

\* Time passes.
PoolTick ==
    /\ wclock < MaxPoolTime
    /\ wclock' = wclock + WatchInterval
    /\ UNCHANGED <<GILRS_INSTANCE, watch_env, callers, gilrs_mutex, drained, created>>
    /\ PoolFrame

\* A device sends an event; the instance, once created, holds it until it
\* is taken.
PoolArrive(event) ==
    /\ GILRS_INSTANCE.some
    /\ watch_env > 0
    /\ Len(GILRS_INSTANCE.events) < MaxQueue
    /\ GILRS_INSTANCE' = [GILRS_INSTANCE EXCEPT !.events = Append(@, event)]
    /\ watch_env' = watch_env - 1
    /\ UNCHANGED <<callers, gilrs_mutex, wclock, drained, created>>
    /\ PoolFrame

\* The steps of one call once it has started.
PoolCall(c) ==
    \/ PoolCheck(c)
    \/ PoolLock(c)
    \/ PoolHave(c)
    \/ PoolCreate(c)
    \/ PoolCreateFail(c)
    \/ PoolDrainEvent(c)
    \/ PoolDrainEnd(c)
    \/ PoolWake(c)

PoolNext ==
    \/ \E c \in Callers : PoolStart(c)
    \/ \E c \in Callers : PoolCall(c)
    \/ PoolTick
    \/ \E event \in PoolEvents : PoolArrive(event)

SpecPool == PoolInit /\ [][PoolNext]_vars

\* Every thread that has entered the function keeps running, and time
\* passes.
PoolFairness ==
    /\ \A c \in Callers : WF_vars(PoolCall(c))
    /\ WF_vars(PoolTick)
SpecPoolLive == PoolInitWith(MaxPoolLiveEnv) /\ [][PoolNext]_vars /\ PoolFairness

\* ============================================================== claims
RECURSIVE CountOf(_, _)
CountOf(seq, d) ==
    IF seq = <<>> THEN 0
    ELSE (IF seq[1] = d THEN 1 ELSE 0) + CountOf(Tail(seq), d)

RECURSIVE FiresOnly(_)
\* The fired directions of a log, in order, without the "none" entries.
FiresOnly(seq) ==
    IF seq = <<>> THEN <<>>
    ELSE IF seq[1] = "none" THEN FiresOnly(Tail(seq))
    ELSE <<seq[1]>> \o FiresOnly(Tail(seq))

IsHigh(v) == v > AXIS_TRIGGER_THRESHOLD
IsCentered(v) == Abs(v) < AXIS_RESET_THRESHOLD

\* obs is 0, then a run of values above the trigger threshold, then a run of
\* centered values, then a second run above the trigger threshold that
\* starts more than the movement threshold above the last centered value.
TwoExcursions ==
    /\ Len(obs) >= 4
    /\ obs[1] = 0
    /\ \E a \in 2..Len(obs), b \in 3..Len(obs) :
          /\ a < b /\ b < Len(obs)
          /\ \A i \in 2..a : IsHigh(obs[i])
          /\ \A i \in (a+1)..b : IsCentered(obs[i])
          /\ \A i \in (b+1)..Len(obs) : IsHigh(obs[i])
          /\ obs[b+1] - obs[b] > MOVEMENT_THRESHOLD

\* C1 (as stated): an axis that starts at 0, rises to a value >= 0.5, falls
\* to a value <= 0.3 and rises again to a value >= 0.5 produces exactly two
\* positive triggers at every call site.
C1_Original ==
    ( /\ Len(obs) = 4
      /\ obs[1] = 0
      /\ obs[2] >= AXIS_TRIGGER_THRESHOLD
      /\ obs[3] <= AXIS_RESET_THRESHOLD
      /\ obs[4] >= AXIS_TRIGGER_THRESHOLD )
    => \A s \in Sites : CountOf(site_fired[s], "pos") = 2

\* C1 (amended): an axis that starts at 0, rises strictly above 0.5, falls
\* strictly inside the reset band (|value| < 0.3) and rises strictly above
\* 0.5 again by more than 0.3 from the last centered value produces exactly
\* two positive triggers, one at the first observation of each excursion,
\* and no negative trigger, at every call site.
C1_TwoExcursionsTwoTriggers ==
    TwoExcursions =>
        \A s \in Sites :
            /\ CountOf(site_fired[s], "pos") = 2
            /\ CountOf(site_fired[s], "neg") = 0
            /\ site_fired[s][2] = "pos"

C1_Witness ==
    /\ TwoExcursions
    /\ Len(obs) = 5
    /\ \A s \in Sites : CountOf(site_fired[s], "pos") = 2

NeverCentered == \A i \in 1..Len(obs) : ~IsCentered(obs[i])
Oscillates == \A i \in 1..Len(obs) : obs[i] \in {60, -60}

\* C2 (as stated): a sequence oscillating between +0.6 and -0.6 that never
\* enters the reset band produces at most one positive and at most one
\* negative trigger in total.
C2_Original ==
    Oscillates =>
        \A s \in Sites :
            /\ CountOf(site_fired[s], "pos") <= 1
            /\ CountOf(site_fired[s], "neg") <= 1

\* C2 (amended): in a sequence that never enters the reset band the triggers
\* alternate in direction: the same direction never fires twice in
\* succession, so a direction that has fired fires again only after the
\* opposite direction has fired (or, outside this premise, after centering).
C2_TriggersAlternate ==
    NeverCentered =>
        \A s \in Sites :
            LET f == FiresOnly(site_fired[s])
            IN  \A i \in 1..(Len(f) - 1) : f[i] # f[i+1]

C2_Witness ==
    /\ Oscillates
    /\ \E s \in Sites : CountOf(site_fired[s], "neg") = 2
    /\ \A s \in Sites : Len(FiresOnly(site_fired[s])) >= 3

\* ---- capture sessions
RunningPcs == {"check", "drain", "xinput", "sleep"}

\* What a session has handed to its caller so far: the value returned by
\* wait-for-one, the list of collect-burst, the input-detected pushes of the
\* stream.
Delivered ==
    IF proto = "one"
    THEN (IF result.kind = "Ok" /\ result.value # NoInput THEN <<result.value>> ELSE <<>>)
    ELSE IF proto = "burst" THEN collected_inputs
    ELSE [i \in 1..Len(SelectSeq(emitted, LAMBDA m : m.event = "input-detected")) |->
            SelectSeq(emitted, LAMBDA m : m.event = "input-detected")[i].payload]

\* The strings of the canonical grammar, for the instances and indices the
\* devices of the model can produce.
CanonicalIndices == 1..(MaxCodeIndex + 14)
CanonicalInstances == 1..(Cardinality(DeviceIds) + Cardinality(Slots))
CanonicalKinds ==
    {"button" \o ToString(n) : n \in CanonicalIndices}
    \cup {"axis" \o ToString(n) \o d : n \in CanonicalIndices, d \in {"_positive", "_negative"}}
    \cup {"hat1_up", "hat1_down", "hat1_left", "hat1_right"}
CanonicalStrings ==
    {prefix \o ToString(instance) \o "_" \o kind :
        prefix \in {"js", "gp"}, instance \in CanonicalInstances, kind \in CanonicalKinds}

\* C3: every DetectedInput returned, collected or emitted by any of the
\* three protocols has an input_string of the canonical grammar
\* {js|gp}{instance >= 1}_{button{N} | axis{N}_positive | axis{N}_negative |
\* hat1_up | hat1_down | hat1_left | hat1_right}, N >= 1; no other string is
\* produced.
C3_Original ==
    \A i \in 1..Len(Delivered) : Delivered[i].input_string \in CanonicalStrings

\* The entries of a list whose input_string no earlier entry has, in order.
RECURSIVE FirstOccurrences(_, _)
FirstOccurrences(seq, seen) ==
    IF seq = <<>> THEN <<>>
    ELSE IF seq[1].input_string \in seen THEN FirstOccurrences(Tail(seq), seen)
    ELSE <<seq[1]>> \o FirstOccurrences(Tail(seq), seen \cup {seq[1].input_string})

NoTwoSameString(seq) ==
    \A i, j \in 1..Len(seq) : seq[i].input_string = seq[j].input_string => i = j

\* A step that accepts an event whose input_string is already collected.
AcceptsDuplicate ==
    /\ proto = "burst"
    /\ Len(accepted') = Len(accepted) + 1
    /\ \E i \in 1..Len(collected_inputs) :
          collected_inputs[i].input_string = accepted'[Len(accepted')].input_string

\* C4: at every point of a collect-burst session the collected list holds no
\* two entries with the same input_string and is, in order, the first
\* acceptance of each distinct input_string; accepting an event whose
\* input_string is already collected changes neither the list nor the
\* first-hit timestamp.
C4_CollectedUnique ==
    /\ [](proto = "burst" =>
            /\ NoTwoSameString(collected_inputs)
            /\ collected_inputs = FirstOccurrences(accepted, {}))
    /\ [][AcceptsDuplicate =>
            /\ collected_inputs' = collected_inputs
            /\ first_input_time' = first_input_time]_vars

\* A button pressed twice and another button: three accepted, two collected.
C4_Witness ==
    /\ proto = "burst"
    /\ Len(accepted) = 3
    /\ Len(collected_inputs) = 2
    /\ accepted[1].input_string = accepted[3].input_string
    /\ collected_inputs = <<accepted[1], accepted[2]>>

\* C5: in the stream protocol the input-detected notifications pushed so far
\* are, at every moment, exactly the accepted events in order: each is pushed
\* in the step that accepts it, repeated input_strings included.
C5_PushedEqualsAccepted ==
    proto = "stream" =>
        /\ Delivered = accepted
        /\ \A i \in 1..Len(emitted) :
              emitted[i].event \in {"input-detected", "input-detection-complete"}

\* The same input_string pushed twice in one session.
C5_Witness ==
    /\ proto = "stream"
    /\ Len(accepted) >= 2
    /\ accepted[1].input_string = accepted[2].input_string
    /\ Delivered = accepted

IsComplete(m) == m.event = "input-detection-complete"

\* C6: a stream session pushes no completion notice while it runs, and when
\* it has reached its terminal state it has pushed exactly one, carrying its
\* session id, as the last notification; a session that failed to initialise
\* pushes none.
C6_OneCompletionLast ==
    proto = "stream" =>
        /\ pc \in RunningPcs \cup {"init", "error"} =>
              \A i \in 1..Len(emitted) : ~IsComplete(emitted[i])
        /\ pc = "done" =>
              /\ emitted # <<>>
              /\ emitted[Len(emitted)] =
                    [event |-> "input-detection-complete",
                     payload |-> [session_id |-> session_id]]
              /\ \A i \in 1..(Len(emitted) - 1) : ~IsComplete(emitted[i])
              /\ result = Ok("unit")

\* A finished stream session that pushed inputs before its completion.
C6_Witness ==
    /\ proto = "stream" /\ pc = "done"
    /\ Len(emitted) >= 3
    /\ IsComplete(emitted[Len(emitted)])

\* The deadlines of a session.
InitialDeadline == start + initial_timeout
CollectDeadline == first_input_time + collect_duration
Deadline ==
    IF proto = "one" \/ first_input_time = NoTime THEN InitialDeadline
    ELSE CollectDeadline

\* When the session's first event was accepted (wait-for-one ends at it, so
\* its clock still shows it).
FirstAcceptTime == IF proto = "one" THEN now ELSE first_input_time

EmptyOutcome ==
    CASE proto = "one" -> result = Ok(NoInput)
      [] proto = "burst" -> result = Ok(<<>>)
      [] proto = "stream" ->
            /\ result = Ok("unit")
            /\ emitted = <<[event |-> "input-detection-complete",
                            payload |-> [session_id |-> session_id]]>>

\* C7: a session in which no event is accepted before the initial deadline
\* ends with the empty outcome and not with an error: Ok(None), Ok(empty
\* list), or Ok after pushing only the completion notice; a timeout of 0
\* included.  (An event accepted in the tick that began before the deadline
\* counts as accepted before it.)
C7_Original ==
    pc = "done" /\ (accepted = <<>> \/ FirstAcceptTime > InitialDeadline) => EmptyOutcome

\* C8: wait-for-one returns Some(event) if and only if an event is accepted
\* before the deadline; the event returned is the first one accepted, the
\* call returns in the step that accepts it, without a first-hit timestamp
\* or a collected list, and nothing is consumed or reported after it.
C8_FirstAcceptedReturned ==
    /\ [](proto = "one" =>
            /\ first_input_time = NoTime /\ collected_inputs = <<>> /\ emitted = <<>>
            /\ Len(accepted) <= 1
            /\ pc \in RunningPcs => accepted = <<>> /\ result = NoResult
            /\ pc = "done" =>
                  /\ accepted = <<>> <=> result = Ok(NoInput)
                  /\ accepted # <<>> =>
                        /\ result = Ok(accepted[1])
                        /\ now < InitialDeadline)
    /\ [][proto = "one" /\ accepted' # accepted =>
            /\ pc' = "done"
            /\ Len(queue) - Len(queue') \in {0, 1}]_vars
    /\ [][proto = "one" /\ pc = "done" => UNCHANGED vars]_vars

\* An event was returned while another was still queued behind it.
C8_Witness ==
    /\ proto = "one" /\ pc = "done"
    /\ result.kind = "Ok" /\ result.value # NoInput
    /\ queue # <<>>

\* C9: in collect-burst and stream the first-hit timestamp is set by the
\* first accepted event and never changes afterwards; the collection window
\* ends at first_hit_time + collect_duration, so no event is accepted more
\* than a tick after it; once collecting, only the collection deadline ends
\* the session.
C9_Original ==
    /\ [](proto \in {"burst", "stream"} => (first_input_time = NoTime <=> accepted = <<>>))
    /\ [][first_input_time # NoTime => first_input_time' = first_input_time]_vars
    /\ [][first_input_time = NoTime /\ first_input_time' # NoTime =>
            accepted = <<>> /\ accepted' # <<>> /\ first_input_time' = now']_vars
    /\ [][(proto \in {"burst", "stream"}) /\ first_input_time # NoTime /\ pc' = "done" /\ pc # "done" =>
            now >= CollectDeadline]_vars
    /\ [][(proto \in {"burst", "stream"}) /\ first_input_time # NoTime /\ accepted' # accepted =>
            now' <= CollectDeadline + TickInterval]_vars

\* C10: the deadline is re-checked on every loop tick: a session still
\* running is never more than one tick past its deadline, whatever the
\* backends deliver.
C10_Original ==
    pc \in RunningPcs => now <= Deadline + TickInterval

\* ---- the legacy backend within a tick
XRest == XState({}, 0, 0)
XPressA == XState({4096}, 0, 0)

\* All that happened during the session is that A went down on the
\* controller of slot 0, which was connected and idle when it started.
OnlyAPressed ==
    /\ env_left = MaxEnv - 1
    /\ xhw_start[0] = XRest
    /\ xhw[0] = XPressA

DeliveredStrings == {Delivered[i].input_string : i \in 1..Len(Delivered)}

\* A step that brings the loop back to its top.
TickEnds == pc' = "check" /\ pc \in RunningPcs \ {"check"}

\* C11: in each of the three protocols every loop tick drains the generic
\* backend and then polls all 4 legacy slots (the loop returns to its top
\* only from the poll of the last slot, or from the sleep that follows it),
\* so a legacy button press made while the session is active is delivered
\* by wait-for-one, collect-burst and stream alike.
C11_Original ==
    /\ [](pc = "done" /\ OnlyAPressed => XButtonString(0, 1) \in DeliveredStrings)
    /\ [][TickEnds => pc = "sleep" \/ (pc = "xinput" /\ controller_id = 3)]_vars
    /\ [][pc' = "sleep" /\ pc # "sleep" => pc = "xinput" /\ controller_id = 3]_vars

\* C12: a failed backend initialisation makes the entry point return an
\* error straight from its first step: no backend event has been consumed,
\* no DetectedInput returned, collected or pushed, no completion notice
\* pushed; and an entry point returns an error in no other case.
C12_OnlyInitFails ==
    /\ [](result.kind = "Err" <=> pc = "error")
    /\ [](pc = "error" =>
            /\ accepted = <<>> /\ collected_inputs = <<>> /\ emitted = <<>>
            /\ first_input_time = NoTime
            /\ queue = <<>> /\ env_left = MaxEnv
            /\ now = 0)
    /\ [][pc' = "error" /\ pc # "error" => pc = "init"]_vars
    /\ [][pc = "error" => UNCHANGED vars]_vars

\* The stream entry point failed to load the legacy backend.
C12_Witness ==
    /\ pc = "error" /\ proto = "stream"
    /\ result = Err("Failed to load XInput")

\* A step of the legacy poll loop: the slot at hand has been dealt with.
PollStep == pc = "xinput" /\ (pc' # "xinput" \/ controller_id' # controller_id)

\* C13: a failed read of a legacy slot is not fatal: the session neither
\* ends nor returns an error, nothing is delivered for the slot, its stored
\* previous state and axis states (and those of every other slot) stay as
\* they were, and the poll goes on with the next slot of the same tick.
C13_FailedSlotSkipped ==
    [][PollStep /\ xhw[controller_id] = NoReading =>
          /\ xinput_prev_states' = xinput_prev_states
          /\ xinput_axis_states' = xinput_axis_states
          /\ result' = result /\ accepted' = accepted /\ emitted' = emitted
          /\ first_input_time' = first_input_time
          /\ IF controller_id < 3
             THEN pc' = "xinput" /\ controller_id' = controller_id + 1
             ELSE pc' \in {"sleep", "check"}]_vars

\* Slot 0 fails to read all along and a press on slot 1 is delivered.
C13_Witness ==
    /\ xhw_start[0] = NoReading /\ xhw[0] = NoReading
    /\ env_left = MaxEnv - 1
    /\ XButtonString(1, 2) \in DeliveredStrings

\* A step that takes the event at the head of the generic backend's queue.
ConsumesHead == queue # <<>> /\ queue' = Tail(queue)

\* The event at the head is a press of an ordinary button whose code does
\* not parse to an index.
HeadIsUnparsedButton ==
    /\ queue # <<>>
    /\ Head(queue).type = "ButtonPressed"
    /\ ~IsDPad(Head(queue).button)
    /\ ParseButtonIndex(Head(queue).code) = 0

\* C14: in every protocol a button event whose code cannot be parsed to an
\* index is dropped: nothing is returned, collected or pushed for it, the
\* first-hit timestamp and the collected list are unchanged, and the loop
\* goes on with the next event.
C14_Original ==
    [][ConsumesHead /\ HeadIsUnparsedButton =>
          /\ accepted' = accepted
          /\ collected_inputs' = collected_inputs
          /\ emitted' = emitted
          /\ first_input_time' = first_input_time
          /\ result' = result
          /\ pc' = pc]_vars

\* The D-pad bits of wButtons and their directions.
XDPadDirection(bit) ==
    CASE bit = 1 -> "up" [] bit = 2 -> "down" [] bit = 4 -> "left" [] bit = 8 -> "right"

\* The poll at hand finds exactly one newly set bit, a D-pad bit.
PollsDPadPress(bit) ==
    /\ PollStep
    /\ xhw[controller_id] # NoReading
    /\ xinput_prev_states[controller_id] # NoReading
    /\ xhw[controller_id].wButtons \ xinput_prev_states[controller_id].wButtons = {bit}

HeadIsDPadPress ==
    /\ queue # <<>>
    /\ Head(queue).type = "ButtonPressed"
    /\ IsDPad(Head(queue).button)

\* C15: a D-pad press is reported as {prefix}{instance}_hat1_{direction} on
\* both backends, for a generic-backend DPad button and for the legacy
\* backend's D-pad bits alike, never as a button{N} string.
C15_Original ==
    /\ [][ConsumesHead /\ HeadIsDPadPress =>
            /\ Len(accepted') = Len(accepted) + 1
            /\ accepted'[Len(accepted')].input_string =
                  HatString(Head(queue).id, Head(queue).button)]_vars
    /\ [][\A bit \in {1, 2, 4, 8} : PollsDPadPress(bit) =>
            /\ Len(accepted') = Len(accepted) + 1
            /\ accepted'[Len(accepted')].input_string =
                  "gp" \o ToString(controller_id + 1) \o "_hat1_" \o XDPadDirection(bit)]_vars

\* The class prefix of a generic-backend device, from its name.
ClassPrefix(id) ==
    IF is_gamepad(get_friendly_device_name(Gamepads[id + 1])) THEN "gp" ELSE "js"

\* The event at the head is a press of an ordinary button whose code
\* carries an index.
HeadIsIndexedButton ==
    /\ queue # <<>>
    /\ Head(queue).type = "ButtonPressed"
    /\ ~IsDPad(Head(queue).button)
    /\ Head(queue).code.fmt = "index"

\* The step takes an axis event and accepts an input for it.
AxisTriggers ==
    /\ ConsumesHead
    /\ Head(queue).type = "AxisChanged"
    /\ Len(accepted') = Len(accepted) + 1

\* C16: for a generic-backend device with backend index i and an event code
\* index k, an ordinary button press yields exactly {prefix}{i+1}_button{k+1}
\* and an axis trigger exactly {prefix}{i+1}_axis{k+1}_positive or _negative
\* by the direction fired, with prefix js for a Joystick, gp for a Gamepad.
C16_GenericStrings ==
    /\ [][ConsumesHead /\ HeadIsIndexedButton =>
            /\ Len(accepted') = Len(accepted) + 1
            /\ accepted'[Len(accepted')].input_string =
                  ClassPrefix(Head(queue).id) \o ToString(Head(queue).id + 1)
                      \o "_button" \o ToString(Head(queue).code.n + 1)]_vars
    /\ [][AxisTriggers =>
            accepted'[Len(accepted')].input_string =
                  ClassPrefix(Head(queue).id) \o ToString(Head(queue).id + 1)
                      \o "_axis" \o ToString(Head(queue).code.n + 1)
                      \o (IF Head(queue).value > 0 THEN "_positive" ELSE "_negative")]_vars

\* Button index 2 of the gamepad with backend index 1 and a negative
\* deflection of axis index 0 of the joystick with backend index 0 were both
\* accepted.
C16_Witness ==
    /\ "gp2_button3" \in {accepted[i].input_string : i \in 1..Len(accepted)}
    /\ "js1_axis1_negative" \in {accepted[i].input_string : i \in 1..Len(accepted)}

\* ---- C17
ClassifiedName == fn_call.fn = "is_gamepad" /\ fn_ret.done
HasJoystickIndicator(name) ==
    \E indicator \in joystick_indicators : Contains(ToLowercase(name), indicator)
HasGamepadIndicator(name) ==
    \E indicator \in gamepad_indicators : Contains(ToLowercase(name), indicator)

\* C17: classification is case-insensitive and looks at the joystick
\* indicators first: a name with a joystick indicator in any case is a
\* joystick (is_gamepad is false) even when it also holds a gamepad keyword,
\* a name with no indicator of either list is a joystick, "VKB Gladiator NXT"
\* is a joystick and "Xbox Wireless Controller" is a gamepad.
C17_JoystickFirst ==
    ClassifiedName =>
        /\ HasJoystickIndicator(fn_call.name) => fn_ret.value = FALSE
        /\ ~HasJoystickIndicator(fn_call.name) /\ ~HasGamepadIndicator(fn_call.name)
              => fn_ret.value = FALSE
        /\ fn_call.name = <<"V", "K", "B", " ", "G", "l", "a", "d", "i", "a", "t", "o", "r", " ", "N", "X", "T">>
              => fn_ret.value = FALSE
        /\ fn_call.name = <<"X", "b", "o", "x", " ", "W", "i", "r", "e", "l", "e", "s", "s", " ", "C", "o", "n", "t", "r", "o", "l", "l", "e", "r">>
              => fn_ret.value = TRUE
        /\ is_gamepad(ToUppercase(fn_call.name)) = fn_ret.value
        /\ is_gamepad(ToLowercase(fn_call.name)) = fn_ret.value

\* An upper-case joystick indicator followed by a gamepad keyword has been
\* classified as a joystick.
C17_Witness ==
    /\ ClassifiedName
    /\ fn_call.name = <<"W", "A", "R", "T", "H", "O", "G", " ", "x", "b", "o", "x">>
    /\ fn_ret.value = FALSE

\* ---- C18
SevenKeywords == {
    <<"x", "b", "o", "x">>,
    <<"p", "l", "a", "y", "s", "t", "a", "t", "i", "o", "n">>,
    <<"d", "u", "a", "l", "s", "h", "o", "c", "k">>,
    <<"d", "u", "a", "l", "s", "e", "n", "s", "e">>,
    <<"g", "a", "m", "e", "p", "a", "d">>,
    <<"x", "i", "n", "p", "u", "t">>,
    <<"c", "o", "n", "t", "r", "o", "l", "l", "e", "r", " ", "f", "o", "r", " ", "w", "i", "n", "d", "o", "w", "s">> }
TenKeywords == SevenKeywords \cup {
    <<"p", "s", "3">>,
    <<"p", "s", "4">>,
    <<"p", "s", "5">> }
HasKeyword(name, keywords) ==
    \E keyword \in keywords : Contains(ToLowercase(name), keyword)

\* C18 as stated: a name is a gamepad exactly when it holds no joystick
\* indicator and holds one of the seven keywords xbox, playstation,
\* dualshock, dualsense, gamepad, xinput, "controller for windows".
C18_Original ==
    ClassifiedName =>
        (fn_ret.value = TRUE <=>
            ~HasJoystickIndicator(fn_call.name) /\ HasKeyword(fn_call.name, SevenKeywords))

\* C18: a name is a gamepad exactly when it holds no joystick indicator and
\* holds, in any case, one of the ten keywords xbox, playstation, dualshock,
\* dualsense, ps3, ps4, ps5, "controller for windows", gamepad, xinput;
\* every other name is a joystick.
C18_TenKeywords ==
    ClassifiedName =>
        /\ fn_ret.value \in BOOLEAN
        /\ fn_ret.value = TRUE <=>
              ~HasJoystickIndicator(fn_call.name) /\ HasKeyword(fn_call.name, TenKeywords)

\* A name whose only keyword is ps4 has been classified as a gamepad.
C18_Witness ==
    /\ ClassifiedName
    /\ fn_call.name = <<"U", "S", "B", " ", "p", "s", "4">>
    /\ fn_ret.value = TRUE

\* ---- C19
\* The characters of a text, joined into one string.
RECURSIVE StringOf(_)
StringOf(text) ==
    IF text = <<>> THEN "" ELSE text[1] \o StringOf(Tail(text))
LowerHexValue(c) == (CHOOSE i \in 1..Len(HexDigits) : HexDigits[i] = c) - 1
IsLowerHex(c) == \E i \in 1..Len(HexDigits) : HexDigits[i] = c
ResolvedDevice == fn_call.fn = "resolve_device_uuid" /\ fn_ret.done
ResolvedXInput == fn_call.fn = "resolve_xinput_uuid" /\ fn_ret.done
HasNonZeroByte(raw) == \E i \in 1..Len(raw) : raw[i] # 0

\* C19: resolve_device_uuid depends only on the 16-byte signature, the raw
\* name and the index: a signature with a non-zero byte gives its 32
\* lowercase hexadecimal characters, two per byte in order, with no
\* separator; an all-zero signature gives "{raw name}_{index}"; and
\* resolve_xinput_uuid gives "xinput_{s}" for slot s in 0..3.
C19_ResolveKey ==
    /\ ResolvedDevice =>
          LET raw == fn_call.gamepad.uuid
              key == fn_ret.value
          IN  /\ HasNonZeroByte(raw) =>
                    /\ Len(key) = 2 * UuidLen
                    /\ \A i \in 1..Len(key) : IsLowerHex(key[i])
                    /\ \A b \in 1..UuidLen :
                          16 * LowerHexValue(key[2 * b - 1]) + LowerHexValue(key[2 * b]) = raw[b]
              /\ ~HasNonZeroByte(raw) =>
                    StringOf(key) = StringOf(fn_call.gamepad.name) \o "_"
                                        \o ToString(fn_call.fallback_id)
              /\ \A g \in FnGamepads :
                    g.uuid = raw /\ g.name = fn_call.gamepad.name
                       => resolve_device_uuid(g, fn_call.fallback_id) = key
    /\ ResolvedXInput =>
          /\ fn_call.slot \in 0..3
          /\ StringOf(fn_ret.value) = "xinput_" \o ToString(fn_call.slot)

\* The signature of the connected joystick has been resolved to its
\* hexadecimal text.
C19_Witness ==
    /\ ResolvedDevice
    /\ fn_call.gamepad.uuid = VkbUuid
    /\ StringOf(fn_ret.value) = "030000001f23000000020000ab0100ff"

\* ---- C20
\* fn list_connected_devices: the uuid reported for the device with
\* backend index id.
list_connected_devices_uuid(id) == resolve_device_uuid(Gamepads[id + 1], id)
\* fn detect_axis_movement_for_device: the uuid compared with target_uuid.
detect_axis_movement_uuid(id) == resolve_device_uuid(Gamepads[id + 1], id)

AcceptsGeneric == ConsumesHead /\ Len(accepted') = Len(accepted) + 1

\* C20 as stated: the device identity attached to a DetectedInput of a
\* generic-backend device is the same in all three protocols: it is the
\* identity list_connected_devices reports for the device and
\* detect_axis_movement_for_device matches against.
C20_Original ==
    [][AcceptsGeneric =>
          /\ accepted'[Len(accepted')].device_uuid
                = list_connected_devices_uuid(Head(queue).id)
          /\ accepted'[Len(accepted')].device_uuid
                = detect_axis_movement_uuid(Head(queue).id)]_vars

\* ---- C22
GatedSites == {"wait_generic", "wait_xinput", "burst_generic", "stream_xinput"}

\* C22 as stated: at every call site the first observation of an axis fires
\* nothing and leaves the AxisState {last_value: that observation,
\* last_triggered_direction: None}.
C22_Original ==
    \A s \in Sites :
        /\ Len(obs) >= 1 => site_fired[s][1] = "none"
        /\ Len(obs) = 1 => site_state[s] = AxisState(obs[1], "none")

\* ---- C24
\* The decision the statement gives, from the stored state and the value.
ExpectedFire(st, value) ==
    LET dir == IF Abs(value) < 30 THEN "none" ELSE st.dir
    IN  IF value > 50 /\ Abs(value - st.last_value) > 30 /\ dir # "pos" THEN "pos"
        ELSE IF value < -50 /\ Abs(value - st.last_value) > 30 /\ dir # "neg" THEN "neg"
        ELSE "none"
Observes == Len(obs') = Len(obs) + 1
Observed == obs'[Len(obs')]

\* C24: at the four gated call sites (wait_for_input and
\* wait_for_multiple_inputs on the generic backend, both legacy paths) an
\* observation fires positive exactly when value > 0.5, |value - last_value|
\* > 0.3 for the last_value stored before it, and the direction, cleared
\* first when |value| < 0.3, is not Some(true); negative symmetrically; and
\* nothing otherwise.
C24_GatedDecision ==
    [][Observes =>
          \A s \in GatedSites :
              site_fired'[s][Len(obs')]
                = ExpectedFire(EntryOrInsert(site_state[s], Observed), Observed)]_vars

\* At a legacy call site the axis went from rest past the threshold and
\* fired, was held there without firing, and fired the other way after a
\* swing to the far side.
C24_Witness ==
    /\ obs = <<0, 60, 100, -60>>
    /\ site_fired["wait_xinput"] = <<"none", "pos", "none", "neg">>
    /\ site_fired["stream_xinput"] = <<"none", "pos", "none", "neg">>

\* ---- C25
\* C25 as stated: every call site makes the same decision and leaves the
\* same AxisState for the same observations.
C25_Original ==
    \A s, t \in Sites :
        site_fired[s] = site_fired[t] /\ site_state[s] = site_state[t]

\* ---- C26
\* C26 as stated: after an observation has been processed the AxisState's
\* last_value is the observed value, at every call site.
C26_Original ==
    \A s \in Sites : obs # <<>> => site_state[s].last_value = obs[Len(obs)]

\* ---- C27
\* C27: at every call site an observation with |value| < 0.3 fires nothing
\* and leaves {last_value: value, last_triggered_direction: None}; and the
\* observation after it that is beyond 0.5 and more than 0.3 away from it
\* fires, also in a direction that had fired before.
C27_CenteredRearms ==
    [][Observes =>
          \A s \in Sites :
              /\ Abs(Observed) < 30 =>
                    /\ site_fired'[s][Len(obs')] = "none"
                    /\ site_state'[s] = AxisState(Observed, "none")
              /\ obs # <<>> /\ Abs(obs[Len(obs)]) < 30
                    /\ Abs(Observed) > 50 /\ Abs(Observed - obs[Len(obs)]) > 30
                    => site_fired'[s][Len(obs')] = IF Observed > 0 THEN "pos" ELSE "neg"]_vars

\* At every call site the positive direction fired, the axis came back to
\* the center, and the positive direction fired again.
C27_Witness ==
    /\ obs = <<0, 60, 0, 60>>
    /\ \A s \in Sites : site_fired[s] = <<"none", "pos", "none", "pos">>

\* ---- C28
\* The observations from position i on are never centered and never beyond
\* the threshold on the far side.
RECURSIVE CountFrom(_, _, _)
CountFrom(fired, d, i) ==
    IF i > Len(fired) THEN 0
    ELSE (IF fired[i] = d THEN 1 ELSE 0) + CountFrom(fired, d, i + 1)
PositiveRun(i) == \A j \in i..Len(obs) : ~(Abs(obs[j]) < 30) /\ ~(obs[j] < -50)
NegativeRun(i) == \A j \in i..Len(obs) : ~(Abs(obs[j]) < 30) /\ ~(obs[j] > 50)

\* C28 as stated: at every call site a run of consecutive observations with
\* no centered value and no value below -0.5 fires positive at most once,
\* and a run with no centered value and no value above 0.5 fires negative
\* at most once.
C28_Original ==
    \A s \in Sites : \A i \in 1..Len(obs) :
        /\ PositiveRun(i) => CountFrom(site_fired[s], "pos", i) <= 1
        /\ NegativeRun(i) => CountFrom(site_fired[s], "neg", i) <= 1

\* ---- C29
HeadAxisKey ==
    <<Head(queue).id, extract_code_info(Head(queue).code).index>>
SiteOfPoll == IF proto = "one" THEN "wait_xinput" ELSE "stream_xinput"

\* C29: an observation changes the AxisState of its own key only.  A
\* generic event leaves the legacy table alone and changes at most the entry
\* of (its device, its axis index); a poll of a legacy slot leaves the
\* generic table alone, changes entries of that slot only, each from its own
\* previous state and its own axis value; no other step of a running session
\* touches either table; and an entry, once created, stays.
C29_FrameEffect ==
    /\ [][ConsumesHead =>
            /\ xinput_axis_states' = xinput_axis_states
            /\ \A key \in AxisKeys :
                  axis_states'[key] # axis_states[key] =>
                      Head(queue).type = "AxisChanged" /\ key = HeadAxisKey]_vars
    /\ [][PollStep =>
            /\ axis_states' = axis_states
            /\ \A key \in XAxisKeys :
                  xinput_axis_states'[key] # xinput_axis_states[key] =>
                      /\ key[1] = controller_id
                      /\ xinput_axis_states'[key]
                            = ObserveAt(SiteOfPoll, xinput_axis_states[key],
                                        XAxisValue(xhw[controller_id], key[2])).state]_vars
    /\ [][(pc \in RunningPcs) /\ ~ConsumesHead /\ ~PollStep =>
            axis_states' = axis_states /\ xinput_axis_states' = xinput_axis_states]_vars
    /\ [][(pc \in RunningPcs) =>
            /\ \A key \in AxisKeys : axis_states[key] # NoState => axis_states'[key] # NoState
            /\ \A key \in XAxisKeys :
                  xinput_axis_states[key] # NoState => xinput_axis_states'[key] # NoState]_vars

\* Axis 1 of generic device 0 and axis 1 of legacy slot 0 both have a state,
\* the two differ, and an axis of generic device 1 has one too.
C29_Witness ==
    /\ axis_states[<<0, 1>>] # NoState
    /\ xinput_axis_states[<<0, 1>>] # NoState
    /\ axis_states[<<0, 1>>] # xinput_axis_states[<<0, 1>>]
    /\ axis_states[<<1, MaxCodeIndex + 1>>] # NoState
    /\ xinput_axis_states[<<0, 1>>].dir = "pos"

\* ---- C23
HidIndices == UNION {0..(Len(report) - 1) : report \in HidReports}
\* The calls whose report has the length of the report of the call before
\* and differs from it at byte index i.
CallsChanging(i) ==
    {k \in 2..Len(hid_history) :
        /\ Len(hid_history[k]) = Len(hid_history[k - 1])
        /\ i < Len(hid_history[k])
        /\ hid_history[k][i + 1] # hid_history[k - 1][i + 1]}
Processes == Len(hid_history') = Len(hid_history) + 1
Processed == hid_history'[Len(hid_history')]

\* C23: after any sequence of process_report calls the change count of byte
\* index i is the number of calls whose report had the length of the report
\* stored just before and differed from it at i; the stored report is the
\* one last processed; the first report and a report of another length
\* change no count; and no count ever decreases.
C23_ChangeCounts ==
    /\ [](\A i \in HidIndices :
            ChangeCount(tracker.axis_change_counts, i) = Cardinality(CallsChanging(i)))
    /\ [](DOMAIN tracker.axis_change_counts \subseteq HidIndices)
    /\ [](hid_history # <<>> => tracker.previous_report = hid_history[Len(hid_history)])
    /\ [][Processes /\ (hid_history = <<>> \/ Len(Processed) # Len(tracker.previous_report))
            => tracker.axis_change_counts' = tracker.axis_change_counts]_vars
    /\ [][\A i \in HidIndices :
            ChangeCount(tracker.axis_change_counts', i)
                >= ChangeCount(tracker.axis_change_counts, i)]_vars

\* Three seven-byte reports, byte 5 changing in the second and byte 6 in the
\* third: each of the two has been counted once, no other byte has an entry.
C23_Witness ==
    /\ hid_history = << <<1, 0, 128, 128, 128, 128, 128>>,
                        <<1, 0, 128, 128, 128, 150, 128>>,
                        <<1, 0, 128, 128, 128, 150, 200>> >>
    /\ DOMAIN tracker.axis_change_counts = {5, 6}
    /\ tracker.axis_change_counts[5] = 1
    /\ tracker.axis_change_counts[6] = 1

\* ---- C21
\* An axis event of the requested device outside the deadzone.
OffCenter(event) ==
    /\ event.type = "AxisChanged"
    /\ resolve_device_uuid(Gamepads[event.id + 1], event.id) = watch.target_uuid
    /\ Abs(event.value) > 15
HasIndex(event) == event.code.fmt = "index"
OffCenterSeen == {k \in 1..Len(watch_seen) : OffCenter(watch_seen[k])}
IndexedSeen == {k \in OffCenterSeen : HasIndex(watch_seen[k])}
LastOf(ks) == CHOOSE k \in ks : \A j \in ks : j <= k
WatchReturned == watch.pc = "done"
ReturnedSome == WatchReturned /\ watch.result # Ok(NoMovement)

\* C21 as stated: Some is returned only for an axis event of the requested
\* device with |value| > 0.15 and is the most recent such event the call
\* has observed; None is returned when the call observed no such event
\* before the timeout, and always for a timeout of 0.
C21_Original ==
    /\ ReturnedSome =>
          /\ OffCenterSeen # {}
          /\ watch.result.value.value = watch_seen[LastOf(OffCenterSeen)].value
    /\ WatchReturned /\ OffCenterSeen = {} => watch.result = Ok(NoMovement)
    /\ watch.timeout = 0 /\ watch.pc # "check" =>
          WatchReturned /\ watch.result = Ok(NoMovement)

\* C21: Some({axis_index, value}) is returned only for an axis event of the
\* requested device with |value| > 0.15 whose code carries an index; it is
\* the most recent such event the call has observed, with axis_index the
\* index plus one; None is returned when the call observed no such event
\* before the timeout, and always for a timeout of 0; an error is returned
\* only when the shared instance cannot be created, before any event.
C21_LatestIndexed ==
    /\ ReturnedSome =>
          /\ IndexedSeen # {}
          /\ watch.result =
                Ok(AxisMovement(watch_seen[LastOf(IndexedSeen)].code.n + 1,
                                watch_seen[LastOf(IndexedSeen)].value))
    /\ WatchReturned /\ IndexedSeen = {} => watch.result = Ok(NoMovement)
    /\ watch.timeout = 0 /\ watch.pc # "check" =>
          WatchReturned /\ watch.result = Ok(NoMovement)
    /\ watch.pc = "error" => watch_seen = <<>> /\ watch.timeout > 0
    /\ watch.result.kind = "Err" <=> watch.pc = "error"

\* The call has taken two movements of axis 1 of the requested joystick and
\* then one whose code carries no index, and has returned the second.
C21_Witness ==
    /\ WatchReturned
    /\ watch_seen = <<AxisChanged(0, 16, Code("index", "Axis", 0)),
                      AxisChanged(0, -60, Code("index", "Axis", 0)),
                      AxisChanged(0, 100, Code("code", "Axis", 0))>>
    /\ watch.result = Ok(AxisMovement(1, -60))

\* What the statement names as a session's own: its AxisState tables, its
\* stored legacy button states, its first-hit timestamp and its collected
\* list.
SessionLocals == <<axis_states, xinput_axis_states, xinput_prev_states,
                   first_input_time, collected_inputs>>
PeerLocals == <<peer.axis_states, peer.xinput_axis_states, peer.xinput_prev_states,
                peer.first_input_time, peer.collected_inputs>>
PeerLocalsAfter == <<peer'.axis_states, peer'.xinput_axis_states,
                     peer'.xinput_prev_states, peer'.first_input_time,
                     peer'.collected_inputs>>

\* C30: when two capture sessions run concurrently on separate workers, no
\* step of one changes the other's AxisState tables, stored legacy button
\* states, first-hit timestamp or collected list, and in every interleaving
\* each step that changes a session's variables is a step of that session
\* running alone, so its outcome is the one it would produce alone on the
\* events its own backends delivered.
C30_SessionsIsolated ==
    /\ [][pairVars' # pairVars => UNCHANGED SessionLocals]_vars
    /\ [][sessVars' # sessVars => PeerLocalsAfter = PeerLocals]_vars
    /\ [][Next \/ UNCHANGED sessVars]_vars

\* Both sessions have finished, each holding its own state for the same
\* axis of the same device, and the two states differ.
C30_Witness ==
    /\ pc = "done" /\ peer.pc = "done"
    /\ peer_left = 0
    /\ \E k \in AxisKeys :
          /\ axis_states[k] # NoState
          /\ peer.axis_states[k] # NoState
          /\ axis_states[k] # peer.axis_states[k]

\* The bit of wButtons that the table of the poll gives button number n.
XButtonBit(n) ==
    CASE n = 1 -> 4096 [] n = 2 -> 8192 [] n = 3 -> 16384 [] n = 4 -> 32768
      [] n = 5 -> 256 [] n = 6 -> 512 [] n = 7 -> 16 [] n = 8 -> 32
      [] n = 9 -> 64 [] n = 10 -> 128 [] n = 11 -> 1 [] n = 12 -> 2
      [] n = 13 -> 4 [] n = 14 -> 8
XButtonNums == 1..14
\* The inputs a step has added to what the session handed out.
NewlyAccepted == [i \in 1..(Len(accepted') - Len(accepted)) |-> accepted'[Len(accepted) + i]]
\* The button numbers of slot `slot` among a list of inputs.
XButtonsIn(inputs, slot) ==
    {n \in XButtonNums :
        \E i \in 1..Len(inputs) : inputs[i].input_string = XButtonString(slot, n)}
\* A step of the legacy-backend poll.
XPollStep == pc = "xinput" /\ (pc' # pc \/ controller_id' # controller_id)

\* C34: in the legacy-backend poll a button event is produced only for a
\* bit that is set in the slot's current state and clear in its stored
\* previous state; a button that stays held produces no further event on
\* later ticks; the first successful read of a slot without a stored state
\* produces no event and only records the state.
C34_NewlyPressedOnly ==
    /\ [][XPollStep /\ accepted' # accepted =>
            /\ xhw[controller_id] # NoReading
            /\ xinput_prev_states[controller_id] # NoReading
            /\ \A n \in XButtonsIn(NewlyAccepted, controller_id) :
                  /\ XButtonBit(n) \in xhw[controller_id].wButtons
                  /\ XButtonBit(n) \notin xinput_prev_states[controller_id].wButtons
            /\ \A s \in Slots \ {controller_id} : XButtonsIn(NewlyAccepted, s) = {}]_vars
    /\ [][XPollStep /\ xhw[controller_id] # NoReading
            /\ xinput_prev_states[controller_id] # NoReading
            /\ xhw[controller_id].wButtons \subseteq xinput_prev_states[controller_id].wButtons =>
            \A s \in Slots : XButtonsIn(NewlyAccepted, s) = {}]_vars
    /\ [][XPollStep /\ xhw[controller_id] # NoReading
            /\ xinput_prev_states[controller_id] = NoReading =>
            /\ accepted' = accepted /\ emitted' = emitted /\ result' = result
            /\ xinput_axis_states' = xinput_axis_states
            /\ xinput_prev_states' =
                  [xinput_prev_states EXCEPT ![controller_id] = xhw[controller_id]]]_vars

\* A streaming session has pushed button 1 of slot 0 once; in a later tick
\* it has polled the slot again with the button still held, and nothing
\* more was pushed.
C34_Witness ==
    /\ proto = "stream" /\ pc = "xinput" /\ controller_id = 1
    /\ Len(accepted) = 1 /\ accepted[1].input_string = "gp1_button1"
    /\ first_input_time # NoTime /\ first_input_time < now
    /\ xhw[0] # NoReading /\ xhw[0].wButtons = {4096}
    /\ xinput_prev_states[0] = xhw[0]

\* The table buttons whose bit is set in the slot's current state and clear
\* in its stored state.
XNewlyPressed(slot) ==
    {n \in XButtonNums :
        /\ XButtonBit(n) \in xhw[slot].wButtons
        /\ XButtonBit(n) \notin xinput_prev_states[slot].wButtons}

\* C35: in the stream protocol every newly pressed legacy-backend button
\* among the 14 table buttons produces its own input-detected event, also
\* when several buttons of the same slot become pressed between two
\* consecutive polls of that slot.
C35_Original ==
    [][XPollStep /\ proto = "stream" /\ xhw[controller_id] # NoReading
         /\ xinput_prev_states[controller_id] # NoReading =>
         XButtonsIn(NewlyAccepted, controller_id) = XNewlyPressed(controller_id)]_vars

\* The inputs of axis 5 of slot 0, the left trigger, among those a session
\* has handed out.
TriggerInputs ==
    SelectSeq(accepted, LAMBDA input :
        input.input_string \in {XAxisString(0, 5, "pos"), XAxisString(0, 5, "neg")})
\* C36: in the stream protocol, fully pressing a legacy-backend analog
\* trigger from its rest position (normalised value -1.0) and releasing it
\* back to rest produces exactly one event, the positive trigger of that
\* axis; the return to the rest position produces no negative-direction
\* event.
C36_Original ==
    proto = "stream" =>
        \A i \in 1..Len(TriggerInputs) :
            TriggerInputs[i].input_string # XAxisString(0, 5, "neg")

\* The slots whose read failed when the session initialised its tables.
FailedAtStart == {s \in Slots : xhw_start[s] = NoReading}
\* The inputs of slot `slot` among those the session has handed out.
XInputsOf(slot) ==
    SelectSeq(accepted, LAMBDA input : input.device_uuid = resolve_xinput_uuid(slot))

\* C37: once the read of a legacy-backend slot has failed during a session,
\* the slot is skipped for the remainder of that session's loop: it is not
\* polled again and produces no event in any later tick, even if a
\* controller appears in the slot.
C37_Original ==
    (proto \in {"one", "stream"}) /\ pc # "init" =>
        \A s \in FailedAtStart :
            xinput_prev_states[s] = NoReading /\ XInputsOf(s) = <<>>

\* C37: a failed read of a legacy-backend slot skips the slot for that tick
\* only: the poll changes nothing the session holds and goes on to the next
\* slot; the slot is read again in every later tick, and a read that
\* succeeds is stored (or, in wait-for-one, ends the session with its
\* input), so a controller that appears later produces events.
C37_SkippedForTick ==
    /\ [][XPollStep /\ xhw[controller_id] = NoReading =>
            /\ xinput_prev_states' = xinput_prev_states
            /\ xinput_axis_states' = xinput_axis_states
            /\ accepted' = accepted /\ emitted' = emitted /\ result' = result
            /\ pc' # "done"]_vars
    /\ [][XPollStep /\ xhw[controller_id] # NoReading =>
            \/ xinput_prev_states'[controller_id] = xhw[controller_id]
            \/ proto = "one" /\ pc' = "done" /\ accepted' # accepted]_vars
    /\ [][XPollStep =>
            IF controller_id < 3 /\ pc' # "done"
            THEN pc' = "xinput" /\ controller_id' = controller_id + 1
            ELSE pc' # "xinput"]_vars

\* The read of slot 0 failed when a streaming session started; a controller
\* appeared later, its state was stored, and its button A was pushed.
C37_Witness ==
    /\ proto = "stream"
    /\ 0 \in FailedAtStart
    /\ xinput_prev_states[0] # NoReading
    /\ Len(XInputsOf(0)) = 1
    /\ XInputsOf(0)[1].input_string = "gp1_button1"

\* What the generic-event arm of the session's protocol accepts from an
\* event.
GenericAccepts(e) ==
    CASE proto = "one" -> WaitGenericEvent(e, axis_states).input
      [] proto = "burst" -> BurstGenericEvent(e, axis_states).input
      [] proto = "stream" -> StreamGenericEvent(e, axis_states).input
\* 0 for an input of the generic backend, 1 + slot for one of the legacy
\* backend.
BackendRank(input) ==
    IF \E s \in Slots : input.device_uuid = resolve_xinput_uuid(s)
    THEN 1 + (CHOOSE s \in Slots : input.device_uuid = resolve_xinput_uuid(s))
    ELSE 0
\* The session is polling in its first tick.
FirstTickPoll == pc = "xinput" /\ now - start = (IF proto = "stream" THEN TickInterval ELSE 0)

\* C38: within one tick all pending generic-backend events are processed in
\* arrival order before any legacy-backend slot is polled, slots are polled
\* in ascending order 0..3, and ticks never overlap; so when both backends
\* hold an accepted input in the same tick, wait-for-one returns the
\* generic-backend one and stream pushes the generic-backend events first
\* and the legacy-backend events after, lower slot first.
C38_TickOrder ==
    /\ [][(pc = "drain") /\ queue' # queue /\ Len(queue') <= Len(queue) =>
            /\ queue' = Tail(queue)
            /\ accepted' # accepted => NewlyAccepted = <<GenericAccepts(Head(queue))>>]_vars
    /\ [][(pc = "drain") /\ accepted' # accepted /\ proto = "one" =>
            pc' = "done" /\ result' = Ok(GenericAccepts(Head(queue)))]_vars
    /\ [][pc # "xinput" /\ pc' = "xinput" =>
            pc = "drain" /\ queue = <<>> /\ controller_id' = 0]_vars
    /\ [][(pc = "xinput") =>
            /\ Len(queue') >= Len(queue) /\ axis_states' = axis_states
            /\ \A i \in 1..Len(NewlyAccepted) :
                  BackendRank(NewlyAccepted[i]) = 1 + controller_id
            /\ pc' = "xinput" => controller_id' \in {controller_id, controller_id + 1}
            /\ pc' \notin {"xinput", "done"} => controller_id = 3]_vars
    /\ [](FirstTickPoll =>
            \A i, j \in 1..Len(accepted) :
                i < j => BackendRank(accepted[i]) <= BackendRank(accepted[j]))

\* In its first tick a streaming session has pushed an input of the generic
\* backend, then one of slot 0, then one of slot 1.
C38_Witness ==
    /\ proto = "stream" /\ FirstTickPoll /\ controller_id = 2
    /\ Len(accepted) = 3
    /\ BackendRank(accepted[1]) = 0
    /\ BackendRank(accepted[2]) = 1
    /\ BackendRank(accepted[3]) = 2
    /\ Len(emitted) = 3
    /\ \A i \in 1..3 : emitted[i] = InputDetected(accepted[i])

\* The calls that hold the guard of GILRS_INSTANCE's mutex.
Holding == {c \in Callers : callers[c].pc \in {"locked", "drain"}}
\* The callers that have taken events from the instance.
Drainers == {drained[i].by : i \in 1..Len(drained)}

\* C31: the shared poller of watch_axis_movement is drained only while its
\* mutex is held, so at most one caller at a time consumes events from it,
\* and it is created lazily at most once per process: once it exists it is
\* never replaced or reset, also after a call times out, returns a movement
\* or another caller runs.
C31_SingleDrainer ==
    /\ [](Holding = (IF gilrs_mutex = 0 THEN {} ELSE {gilrs_mutex}))
    /\ [][Len(GILRS_INSTANCE'.events) < Len(GILRS_INSTANCE.events) =>
            /\ gilrs_mutex \in Callers /\ gilrs_mutex' = gilrs_mutex
            /\ callers[gilrs_mutex].pc = "drain"
            /\ GILRS_INSTANCE'.events = Tail(GILRS_INSTANCE.events)
            /\ drained' = Append(drained, [by |-> gilrs_mutex,
                                            event |-> Head(GILRS_INSTANCE.events)])]_vars
    /\ [](created <= 1 /\ (GILRS_INSTANCE.some <=> created = 1))
    /\ [][~GILRS_INSTANCE.some /\ GILRS_INSTANCE'.some =>
            gilrs_mutex \in Callers /\ callers[gilrs_mutex].pc = "locked"]_vars
    /\ [][GILRS_INSTANCE.some =>
            /\ GILRS_INSTANCE'.some /\ created' = created
            /\ Len(GILRS_INSTANCE'.events) >= Len(GILRS_INSTANCE.events) - 1]_vars

\* The instance was created once; caller 1 took an event from it and has
\* returned, and caller 2 took a later event from the same instance.
C31_Witness ==
    /\ created = 1
    /\ Len(drained) = 2 /\ drained[1].by = 1 /\ drained[2].by = 2
    /\ callers[1].pc = "done"
    /\ callers[2].pc = "drain"

\* C32: every call releases the mutex before each sleep and on every
\* return path (movement found, timeout, initialisation error), so for any
\* number of concurrent callers no interleaving deadlocks and every caller
\* eventually returns once its own timeout has elapsed.
C32_ReleasesAndReturns ==
    /\ [](\A c \in Callers :
            callers[c].pc \in {"idle", "check", "lock", "sleep", "done", "error"} =>
                gilrs_mutex # c)
    /\ [][\A c \in Callers :
            callers[c].pc \in {"locked", "drain"}
            /\ callers'[c].pc \in {"sleep", "done", "error"} => gilrs_mutex' = 0]_vars
    /\ [](gilrs_mutex # 0 => callers[gilrs_mutex].pc \in {"locked", "drain"})
    /\ \A c \in Callers :
          (callers[c].pc # "idle") ~> (callers[c].pc \in {"done", "error"})

\* Caller 1 waits for the mutex, its timeout already elapsed, while caller
\* 2 holds the guard and drains.
C32_Witness ==
    /\ callers[1].pc = "lock"
    /\ wclock - callers[1].start >= callers[1].timeout
    /\ gilrs_mutex = 2 /\ callers[2].pc = "drain"

\* The device an event belongs to, as the call identifies it.
EventUuid(event) == resolve_device_uuid(Gamepads[event.id + 1], event.id)
\* The events of `drained` that caller c took.
DrainedBy(c) == {i \in 1..Len(drained) : drained[i].by = c}

\* C33: a call targeting device A never removes from the shared poller's
\* queue an axis event that belongs to a different device B, so a later or
\* concurrent call targeting B still observes every off-centre movement of
\* B that occurred.
C33_Original ==
    \A i \in 1..Len(drained) :
        EventUuid(drained[i].event) = callers[drained[i].by].target_uuid

\* C33: a call removes every pending event from the shared poller, whatever
\* device it belongs to, and ignores those of devices other than its
\* target; a call returns a movement only from an event of its target that
\* it has taken itself, so a movement of B taken by a call targeting A is
\* observed by no call targeting B.
C33_DrainsAll ==
    /\ [][\A c \in Callers :
            callers[c].pc = "drain" /\ callers'[c] # callers[c]
            /\ callers'[c].pc = "drain" =>
                /\ GILRS_INSTANCE.events # <<>>
                /\ GILRS_INSTANCE'.events = Tail(GILRS_INSTANCE.events)
                /\ EventUuid(Head(GILRS_INSTANCE.events)) = callers[c].target_uuid]_vars
    /\ [][\A c \in Callers :
            callers[c].pc = "drain" /\ GILRS_INSTANCE.events # <<>>
            /\ (callers'[c] # callers[c]
                \/ Len(GILRS_INSTANCE'.events) < Len(GILRS_INSTANCE.events)) =>
                /\ callers'[c].pc = "drain"
                /\ GILRS_INSTANCE'.events = Tail(GILRS_INSTANCE.events)
                /\ drained' = Append(drained, [by |-> c,
                                                event |-> Head(GILRS_INSTANCE.events)])]_vars
    /\ [](\A c \in Callers :
            callers[c].result.kind = "Ok" /\ callers[c].result.value # NoMovement =>
                \E i \in DrainedBy(c) :
                    /\ EventUuid(drained[i].event) = callers[c].target_uuid
                    /\ drained[i].event.value = callers[c].result.value.value)

\* A call targeting the joystick has taken the second device's movement;
\* the call targeting the second device, started before, has timed out
\* without a movement.
C33_Witness ==
    /\ callers[1].target_uuid = TargetOf(0) /\ callers[2].target_uuid = TargetOf(1)
    /\ drained = <<[by |-> 1, event |-> AxisChanged(1, -60, Code("index", "Axis", 0))]>>
    /\ GILRS_INSTANCE.events = <<>>
    /\ callers[2].pc = "done" /\ callers[2].result = Ok(NoMovement)
    /\ callers[2].start = 0


====
